---- MODULE Spec2Model ----
(***************************************************************************)
(* Model of the Nepali legal-act parser (src/scripts/parse_to_json.py).    *)
(*                                                                         *)
(* Text is modelled as a sequence of lexemes.  A lexeme is either a single *)
(* character of the source alphabet or one of the literal words the code   *)
(* searches for.  Devanagari lexemes carry ASCII names:                    *)
(*   "d1" "d2"      Devanagari digits one and two                          *)
(*   "ka" "kha"     Devanagari consonants accepted as clause labels        *)
(*   "danda"        the sentence terminator                                *)
(*   "bhag"         the Part word, "pariched" the Chapter word             *)
(*   "dapha"        the Section word, "upa" the prefix making Subsection   *)
(*   "paribhasha" "haru" "shabdartha"   the definition markers             *)
(*   "prastavana"   the preamble marker                                    *)
(*   "rajpatra"     the gazette header phrase                              *)
(*   "www"          the watermark www.lawcommission.gov.np                 *)
(*   "bullet"       a decorative glyph,  "nl" the line feed                *)
(*   "PAGE"         the literal "--- PAGE", "---" three dashes             *)
(***************************************************************************)
EXTENDS Integers, Sequences, FiniteSets, TLC

(***************************************************************************)
(* Bounds of the model.                                                    *)
(***************************************************************************)
MaxLines == 4
MaxCleanLen == 3
MaxTwiceLines == 2
MaxValChunks == 6
MaxValStat == 4

(***************************************************************************)
(* Character classes of the regular expressions.                           *)
(***************************************************************************)
AsciiDigits == {"0", "1", "2"}
DevDigits == {"d1", "d2"}
\* [\d<Devanagari digits>] : \d covers every decimal digit
Digits == AsciiDigits \cup DevDigits
\* [<Devanagari consonants>]
Consonants == {"ka", "kha"}
\* \s
Spaces == {" ", "nl"}
\* [<decorative glyphs>]
Glyphs == {"bullet"}
\* [<danda>,]
Terminators == {"danda", ","}
\* [<U+0900>-<U+097F>]
Devanagari == DevDigits \cup Consonants \cup
              {"danda", "bhag", "pariched", "dapha", "upa", "paribhasha",
               "haru", "shabdartha", "prastavana", "rajpatra"}

\* Python's None
None == <<"<None>">>
Truthy(s) == s # None /\ s # <<>>

(***************************************************************************)
(* String helpers.                                                         *)
(***************************************************************************)
\* s[i..] with i possibly beyond the end
From(s, i) == IF i > Len(s) THEN <<>> ELSE SubSeq(s, i, Len(s))

\* first index >= i whose lexeme is outside class, Len(s)+1 when none
RECURSIVE SkipWhile(_, _, _)
SkipWhile(s, i, class) ==
    IF i <= Len(s) /\ s[i] \in class THEN SkipWhile(s, i + 1, class) ELSE i

\* does w occur in s at index i
StartsAt(s, i, w) ==
    /\ i + Len(w) - 1 <= Len(s)
    /\ \A k \in 1..Len(w) : s[i + k - 1] = w[k]

\* Python's `w in s`
Contains(s, w) == \E i \in 1..(Len(s) + 1) : StartsAt(s, i, w)

RECURSIVE RStripIdx(_, _)
RStripIdx(s, i) == IF i >= 1 /\ s[i] \in Spaces THEN RStripIdx(s, i - 1) ELSE i

\* str.strip()
Strip(s) ==
    LET a == SkipWhile(s, 1, Spaces)
        b == RStripIdx(s, Len(s))
    IN IF a > b THEN <<>> ELSE SubSeq(s, a, b)

\* every lexeme of class removed: re.sub(r'[class]', '', s)
RECURSIVE RemoveAll(_, _)
RemoveAll(s, class) ==
    IF s = <<>> THEN <<>>
    ELSE IF s[1] \in class THEN RemoveAll(Tail(s), class)
    ELSE <<s[1]>> \o RemoveAll(Tail(s), class)

\* sep.join(parts)
RECURSIVE Join(_, _)
Join(parts, sep) ==
    IF parts = <<>> THEN <<>>
    ELSE IF Len(parts) = 1 THEN parts[1]
    ELSE parts[1] \o sep \o Join(Tail(parts), sep)

\* first index >= i holding a lexeme of class, Len(s)+1 when none
RECURSIVE IndexOf(_, _, _)
IndexOf(s, i, class) ==
    IF i <= Len(s) /\ s[i] \notin class THEN IndexOf(s, i + 1, class) ELSE i

\* s.split('\n')
RECURSIVE SplitNL(_)
SplitNL(s) ==
    LET k == IndexOf(s, 1, {"nl"})
    IN IF k > Len(s) THEN <<s>>
       ELSE <<SubSeq(s, 1, k - 1)>> \o SplitNL(From(s, k + 1))

(***************************************************************************)
(* clean_text, one definition per substitution.                            *)
(***************************************************************************)
\* end (exclusive) of a match of ^\s*\d+\s*$ starting at p, 0 when none
NumericLineEnd(s, p) ==
    LET a == SkipWhile(s, p, Spaces)
        b == SkipWhile(s, a, Digits)
        c == SkipWhile(s, b, Spaces)
        ends == {q \in b..(c - 1) : s[q] = "nl"}
    IN IF b = a THEN 0
       ELSE IF c > Len(s) THEN c
       ELSE IF ends = {} THEN 0
       ELSE CHOOSE q \in ends : \A r \in ends : r <= q

\* re.sub(r'^\s*\d+\s*$', '', s, flags=re.MULTILINE) from position p on
RECURSIVE RemoveNumericLines(_, _)
RemoveNumericLines(s, p) ==
    IF p > Len(s) THEN <<>>
    ELSE LET q == IF p = 1 \/ s[p - 1] = "nl" THEN NumericLineEnd(s, p) ELSE 0
         IN IF q > 0 THEN RemoveNumericLines(s, q)
            ELSE <<s[p]>> \o RemoveNumericLines(s, p + 1)

\* re.sub(r'<gazette phrase>.*?<part word>', '', s) from position p on
RECURSIVE RemoveGazette(_, _)
RemoveGazette(s, p) ==
    IF p > Len(s) THEN <<>>
    ELSE LET k == IndexOf(s, p + 1, {"bhag", "nl"})
         IN IF s[p] = "rajpatra" /\ k <= Len(s) /\ s[k] = "bhag"
            THEN RemoveGazette(s, k + 1)
            ELSE <<s[p]>> \o RemoveGazette(s, p + 1)

\* re.sub(r'\s+', ' ', s)
RECURSIVE CollapseSpaces(_, _)
CollapseSpaces(s, p) ==
    IF p > Len(s) THEN <<>>
    ELSE IF s[p] \in Spaces
         THEN <<" ">> \o CollapseSpaces(s, SkipWhile(s, p, Spaces))
         ELSE <<s[p]>> \o CollapseSpaces(s, p + 1)

\* re.sub(r'\s*([danda,])\s*', r'\1 ', s)
RECURSIVE SpaceTerminators(_, _)
SpaceTerminators(s, p) ==
    IF p > Len(s) THEN <<>>
    ELSE LET a == SkipWhile(s, p, Spaces)
         IN IF a <= Len(s) /\ s[a] \in Terminators
            THEN <<s[a], " ">> \o SpaceTerminators(s, SkipWhile(s, a + 1, Spaces))
            ELSE <<s[p]>> \o SpaceTerminators(s, p + 1)

clean_text(text) ==
    IF text = <<>> THEN <<>>
    ELSE LET t1 == RemoveAll(text, Glyphs)
             t2 == RemoveAll(t1, {"www"})
             t3 == RemoveNumericLines(t2, 1)
             t4 == RemoveGazette(t3, 1)
             t5 == CollapseSpaces(t4, 1)
             t6 == SpaceTerminators(t5, 1)
         IN Strip(t6)

(***************************************************************************)
(* The compiled patterns of NepaliLegalParser.__init__.  A match is a      *)
(* record: ok, and the two groups g1 and g2.                               *)
(***************************************************************************)
NoMatch == [ok |-> FALSE, g1 |-> <<>>, g2 |-> <<>>]

\* shared shape of part_pattern and chapter_pattern:
\* word \s* [-]? \s* (digits+) \s* (.*)
HeadingMatch(line, word) ==
    LET a == SkipWhile(line, 2, Spaces)
        h == IF a <= Len(line) /\ line[a] = "-" THEN a + 1 ELSE a
        d == SkipWhile(line, h, Spaces)
        e == SkipWhile(line, d, Digits)
    IN IF line # <<>> /\ line[1] = word /\ e > d
       THEN [ok |-> TRUE, g1 |-> SubSeq(line, d, e - 1),
             g2 |-> From(line, SkipWhile(line, e, Spaces))]
       ELSE NoMatch

part_pattern(line) == HeadingMatch(line, "bhag")

chapter_pattern(line) == HeadingMatch(line, "pariched")

\* ^(digits+)\.\s*(.*)
section_pattern(line) ==
    LET e == SkipWhile(line, 1, Digits)
    IN IF e > 1 /\ e <= Len(line) /\ line[e] = "."
       THEN [ok |-> TRUE, g1 |-> SubSeq(line, 1, e - 1),
             g2 |-> From(line, SkipWhile(line, e + 1, Spaces))]
       ELSE NoMatch

\* shared shape of sub_section_pattern and clause_pattern:
\* ^\((class+)\)\s*(.*)
ParenMatch(line, class) ==
    LET e == SkipWhile(line, 2, class)
    IN IF line # <<>> /\ line[1] = "(" /\ e > 2 /\ e <= Len(line) /\ line[e] = ")"
       THEN [ok |-> TRUE, g1 |-> SubSeq(line, 2, e - 1),
             g2 |-> From(line, SkipWhile(line, e + 1, Spaces))]
       ELSE NoMatch

sub_section_pattern(line) == ParenMatch(line, Digits)

clause_pattern(line) == ParenMatch(line, Consonants)

\* one attempt of a reference pattern at p: word \s* (digits+), or with
\* paren word \s* \((digits+)\).  Result <<group, end>>, end = 0 when no match.
RefMatch(s, p, word, paren) ==
    LET a == SkipWhile(s, p + Len(word), Spaces)
        d == IF paren THEN a + 1 ELSE a
        e == SkipWhile(s, d, Digits)
    IN IF /\ StartsAt(s, p, word)
          /\ e > d
          /\ paren => (a <= Len(s) /\ s[a] = "(" /\ e <= Len(s) /\ s[e] = ")")
       THEN <<SubSeq(s, d, e - 1), IF paren THEN e + 1 ELSE e>>
       ELSE <<(<<>>), 0>>

\* pattern.findall(s) from position p on
RECURSIVE FindAll(_, _, _, _)
FindAll(s, p, word, paren) ==
    IF p > Len(s) THEN <<>>
    ELSE LET m == RefMatch(s, p, word, paren)
         IN IF m[2] > 0 THEN <<m[1]>> \o FindAll(s, m[2], word, paren)
            ELSE FindAll(s, p + 1, word, paren)

\* self.ref_patterns
ref_patterns == << [word |-> <<"dapha">>, paren |-> FALSE],
                   [word |-> <<"upa", "dapha">>, paren |-> TRUE],
                   [word |-> <<"pariched">>, paren |-> FALSE] >>

definition_markers == << <<"paribhasha">>, <<"paribhasha", "haru">>, <<"shabdartha">> >>

(***************************************************************************)
(* Iteration order of a Python set of strings.  It follows the strings'    *)
(* hashes, which are salted per process: the salt is the variable          *)
(* hash_seed, and the order is ascending or descending in DigitKey.        *)
(***************************************************************************)
HashSeeds == {1, -1}

DigitVal(c) == CASE c \in {"0"} -> 0
                 [] c \in {"1", "d1"} -> 1
                 [] c \in {"2", "d2"} -> 2

\* an injective integer key of a numeral string
RECURSIVE DigitKey(_)
DigitKey(n) ==
    IF n = <<>> THEN 0
    ELSE LET c == n[Len(n)]
         IN (IF c \in DevDigits THEN 4 + DigitVal(c) ELSE 1 + DigitVal(c))
            + 7 * DigitKey(SubSeq(n, 1, Len(n) - 1))

RECURSIVE SetToList(_, _)
SetToList(S, seed) ==
    IF S = {} THEN <<>>
    ELSE LET x == CHOOSE y \in S : \A z \in S : seed * DigitKey(y) <= seed * DigitKey(z)
         IN <<x>> \o SetToList(S \ {x}, seed)

SeqRange(q) == {q[k] : k \in 1..Len(q)}

\* the captures as found, repeated ones kept
extract_without_set(text, seed) ==
    FindAll(text, 1, ref_patterns[1].word, ref_patterns[1].paren)
    \o FindAll(text, 1, ref_patterns[2].word, ref_patterns[2].paren)
    \o FindAll(text, 1, ref_patterns[3].word, ref_patterns[3].paren)

extract_cross_references(text, seed) ==
    LET references == FindAll(text, 1, ref_patterns[1].word, ref_patterns[1].paren)
                      \o FindAll(text, 1, ref_patterns[2].word, ref_patterns[2].paren)
                      \o FindAll(text, 1, ref_patterns[3].word, ref_patterns[3].paren)
    IN SetToList(SeqRange(references), seed)

is_definition_section(text) ==
    \E k \in 1..Len(definition_markers) : Contains(text, definition_markers[k])

\* the subsection component dropped from a clause's id
generate_chunk_id_without_sub(act_id, dapha, sub, khanda) ==
    LET parts == <<act_id, dapha>>
                 \o (IF Truthy(sub) /\ ~Truthy(khanda) THEN <<sub>> ELSE <<>>)
                 \o (IF Truthy(khanda) THEN <<khanda>> ELSE <<>>)
    IN Join(parts, <<"_">>)

generate_chunk_id(act_id, dapha, sub, khanda) ==
    LET parts == <<act_id, dapha>>
                 \o (IF Truthy(sub) THEN <<sub>> ELSE <<>>)
                 \o (IF Truthy(khanda) THEN <<khanda>> ELSE <<>>)
    IN Join(parts, <<"_">>)

\* <<minimal, contextual>>
create_contextual_content(section_title, section_no, subsection_content, subsection_no, clause_content, clause_label) ==
    LET minimal ==
            IF Truthy(clause_content)
            THEN <<"(">> \o clause_label \o <<")", " ">> \o clause_content
            ELSE IF Truthy(subsection_content)
            THEN <<"(">> \o subsection_no \o <<")", " ">> \o subsection_content
            ELSE section_no \o <<".", " ">> \o section_title
        c1 == <<"dapha", " ">> \o section_no \o <<":", " ">> \o section_title \o <<"nl">>
        c2 == IF Truthy(subsection_content)
              THEN c1 \o <<"(">> \o subsection_no \o <<")", " ">> \o subsection_content \o <<"nl">>
              ELSE c1
        c3 == IF Truthy(clause_content)
              THEN c2 \o <<"(">> \o clause_label \o <<")", " ">> \o clause_content
              ELSE c2
    IN <<Strip(minimal), Strip(c3)>>

(***************************************************************************)
(* Page splitting (parse_act, before the loop).                            *)
(***************************************************************************)
\* one attempt of --- PAGE (\d+) --- at p: <<group, end>>, end = 0 when none
PageMarkerAt(s, p) ==
    LET e == SkipWhile(s, p + 2, Digits)
    IN IF /\ StartsAt(s, p, <<"PAGE", " ">>)
          /\ e > p + 2
          /\ StartsAt(s, e, <<" ", "---">>)
       THEN <<SubSeq(s, p + 2, e - 1), e + 2>>
       ELSE <<(<<>>), 0>>

\* re.split(r"--- PAGE (\d+) ---", s): scanning at p, the open piece starts at b
RECURSIVE ReSplitPages(_, _, _)
ReSplitPages(s, p, b) ==
    IF p > Len(s) THEN <<From(s, b)>>
    ELSE LET m == PageMarkerAt(s, p)
         IN IF m[2] > 0
            THEN <<SubSeq(s, b, p - 1), m[1]>> \o ReSplitPages(s, m[2], m[2])
            ELSE ReSplitPages(s, p + 1, b)

SplitPages(raw) ==
    IF Contains(raw, <<"PAGE">>) THEN ReSplitPages(raw, 1, 1)
    ELSE << <<>>, <<"1">>, raw >>

\* int(numeral)
RECURSIVE IntOf(_)
IntOf(n) ==
    IF n = <<>> THEN 0
    ELSE DigitVal(n[Len(n)]) + 10 * IntOf(SubSeq(n, 1, Len(n) - 1))

(***************************************************************************)
(* get_act_metadata: the file name gives the act name, the act name gives  *)
(* the identifier.  The enactment date and the preamble are not modelled.  *)
(***************************************************************************)
\* hashlib.md5(act_name).hexdigest()[:8]: the digest of a name is written as
\* the lexeme "md5" followed by the name
generate_act_id(act_name) == <<"md5">> \o act_name

get_act_metadata(file_name) ==
    [act_name |-> file_name,
     act_identifier |-> generate_act_id(file_name),
     source_filename |-> file_name \o <<".txt">>]

(***************************************************************************)
(* validate_parse_quality.  An issue is a record: level, text and the      *)
(* numbers interpolated into the message.                                  *)
(***************************************************************************)
Issue(level, text, args) == [level |-> level, text |-> text, args |-> args]

\* a wrong Devanagari test: any visible character counts
has_any_text(raw) == \E k \in 1..Len(raw) : raw[k] \notin Spaces

\* bool(re.search(r'[<Devanagari block>]', raw_text))
has_nepali(raw) == \E k \in 1..Len(raw) : raw[k] \in Devanagari

\* an off-by-one threshold
FewChunksInclusive(n) == n <= 5

\* len(chunks) < 5
FewChunks(n) == n < 5

\* lines 401-417: the rules evaluated for a non-empty chunk list
RuleIssues(cs, stats, raw) ==
         (IF FewChunks(Len(cs))
          THEN <<Issue("WARNING", "Only chunks parsed", <<Len(cs)>>)>> ELSE <<>>)
      \o (IF stats.sections = 0
          THEN <<Issue("CRITICAL", "No sections found", <<>>)>> ELSE <<>>)
      \o (IF stats.sections > 0 /\ stats.subsections = 0 /\ stats.clauses = 0
          THEN <<Issue("INFO", "No subsections or clauses found", <<>>)>> ELSE <<>>)
      \o (IF stats.sections > 0
             /\ 10 * (stats.subsections + stats.clauses) < 3 * stats.sections
          THEN <<Issue("WARNING", "Low sub-structure ratio",
                       <<stats.subsections + stats.clauses, stats.sections>>)>>
          ELSE <<>>)
      \o (IF ~has_nepali(raw)
          THEN <<Issue("CRITICAL", "No Devanagari text detected", <<>>)>> ELSE <<>>)

\* the early return of line 399 left out
validate_without_return(cs, stats, raw) ==
    (IF Len(cs) = 0 THEN <<Issue("CRITICAL", "No chunks parsed", <<>>)>> ELSE <<>>)
    \o RuleIssues(cs, stats, raw)

validate_parse_quality(cs, stats, raw) ==
    IF Len(cs) = 0
    THEN <<Issue("CRITICAL", "No chunks parsed", <<>>)>>
    ELSE RuleIssues(cs, stats, raw)

(***************************************************************************)
(* create_comprehensive_chunks.                                            *)
(***************************************************************************)
AtomicTypes == {"section", "sub_section", "clause"}

\* the atomic chunks of cs whose section number has the value of dapha_no
RECURSIVE SelectChunksByValue(_, _)
SelectChunksByValue(cs, dapha_no) ==
    IF cs = <<>> THEN <<>>
    ELSE (IF /\ cs[1].metadata.type \in AtomicTypes
             /\ IntOf(cs[1].metadata.dapha_no) = IntOf(dapha_no)
          THEN <<cs[1]>> ELSE <<>>) \o SelectChunksByValue(Tail(cs), dapha_no)

\* the atomic chunks of cs with section number dapha_no, in order
RECURSIVE SelectChunks(_, _)
SelectChunks(cs, dapha_no) ==
    IF cs = <<>> THEN <<>>
    ELSE (IF cs[1].metadata.type \in AtomicTypes /\ cs[1].metadata.dapha_no = dapha_no
          THEN <<cs[1]>> ELSE <<>>) \o SelectChunks(Tail(cs), dapha_no)

\* the keys of the sections dict in insertion order
RECURSIVE GroupKeys(_, _)
GroupKeys(cs, seen) ==
    IF cs = <<>> THEN <<>>
    ELSE LET k == cs[1].metadata.dapha_no
         IN IF cs[1].metadata.type \in AtomicTypes /\ k \notin seen
            THEN <<k>> \o GroupKeys(Tail(cs), seen \cup {k})
            ELSE GroupKeys(Tail(cs), seen)

\* the group's contents in the wrong order
ContentsReversed(cs) == [k \in 1..Len(cs) |-> cs[Len(cs) + 1 - k].content]

\* [c.content for c in section_chunks]
ContentsOf(cs) == [k \in 1..Len(cs) |-> cs[k].content]

\* the metadata of the group's first chunk copied, with the type replaced
ComprehensiveFromFirst(section_chunks, dapha_no, act_metadata) ==
    LET full_content == Join(ContentsOf(section_chunks), <<"nl">>)
    IN [content |-> full_content,
        content_with_context |-> full_content,
        metadata |-> [section_chunks[1].metadata EXCEPT
                          !.type = "section_comprehensive", !.hierarchy_level = 0],
        chunk_id |-> act_metadata.act_identifier \o <<"_">> \o dapha_no \o <<"_", "full">>]

\* the labels and the page of the group's last chunk in place of the first
ComprehensiveFromLast(section_chunks, dapha_no, act_metadata) ==
    LET full_content == Join(ContentsOf(section_chunks), <<"nl">>)
        last == section_chunks[Len(section_chunks)]
    IN [content |-> full_content,
        content_with_context |-> full_content,
        metadata |->
            [act_name |-> act_metadata.act_name,
             act_identifier |-> act_metadata.act_identifier,
             part |-> last.metadata.part,
             chapter |-> last.metadata.chapter,
             dapha_no |-> dapha_no,
             citation |-> act_metadata.act_name \o <<",", " ", "dapha", " ">>
                          \o dapha_no \o <<" ", "(", "purna", ")">>,
             page_no |-> last.metadata.page_no,
             type |-> "section_comprehensive",
             sub_chunk_count |-> Len(section_chunks),
             hierarchy_level |-> 0],
        chunk_id |-> act_metadata.act_identifier \o <<"_">> \o dapha_no \o <<"_", "full">>]

ComprehensiveChunk(section_chunks, dapha_no, act_metadata) ==
    LET full_content == Join(ContentsOf(section_chunks), <<"nl">>)
    IN [content |-> full_content,
        content_with_context |-> full_content,
        metadata |->
            [act_name |-> act_metadata.act_name,
             act_identifier |-> act_metadata.act_identifier,
             part |-> section_chunks[1].metadata.part,
             chapter |-> section_chunks[1].metadata.chapter,
             dapha_no |-> dapha_no,
             citation |-> act_metadata.act_name \o <<",", " ", "dapha", " ">>
                          \o dapha_no \o <<" ", "(", "purna", ")">>,
             page_no |-> section_chunks[1].metadata.page_no,
             type |-> "section_comprehensive",
             sub_chunk_count |-> Len(section_chunks),
             hierarchy_level |-> 0],
        chunk_id |-> act_metadata.act_identifier \o <<"_">> \o dapha_no \o <<"_", "full">>]

RECURSIVE ComprehensiveFor(_, _, _)
ComprehensiveFor(keys, cs, act_metadata) ==
    IF keys = <<>> THEN <<>>
    ELSE LET section_chunks == SelectChunks(cs, keys[1])
         IN (IF Len(section_chunks) > 1
             THEN <<ComprehensiveChunk(section_chunks, keys[1], act_metadata)>>
             ELSE <<>>) \o ComprehensiveFor(Tail(keys), cs, act_metadata)

create_comprehensive_chunks(cs, act_metadata) ==
    ComprehensiveFor(GroupKeys(cs, {}), cs, act_metadata)

(***************************************************************************)
(* State.  The variables of parse_act keep their names; pc is the position *)
(* of the run, i and j the page and line the loop is at.                   *)
(***************************************************************************)
VARIABLES
    file_name,                  \* base name of file_path, without extension
    raw_text,                   \* the decoded file
    hash_seed,                  \* the string-hash salt of the running process
    pages,                      \* re.split result
    i, lines, j,                \* loop position: page pages[i], line lines[j]
    anchor_found,
    chunks, definitions, cross_references,
    current_part, current_chapter,
    current_section_no, current_section_title, current_section_full_text,
    current_subsection_no, current_subsection_text,
    parse_stats,
    metadata,                   \* the second component of parse_act's result
    pc,
    first_result,               \* result of an earlier parse of the same file
    clean_in, clean_once, clean_twice,
    issues,                     \* result of a direct validate_parse_quality call
    input_dir, output_dir,      \* INPUT_DIR and OUTPUT_DIR on disk
    files, idx,                 \* main: the .txt files and the loop position
    all_chunks, all_metadata, parsing_report,
    main_pc,                    \* position of main
    attempts,                   \* the open() calls of the running parse_act
    top_k,                      \* rag_instance.retriever.top_k
    response,                   \* the last answer of the HTTP layer
    chroma_path, data_path,     \* CHROMA_PATH and DATA_PATH on disk
    ingest_pc,                  \* position of run_ingestion
    langchain_docs, batch_start \* run_ingestion: the documents, the loop index

locals == <<anchor_found, chunks, definitions, cross_references,
            current_part, current_chapter,
            current_section_no, current_section_title, current_section_full_text,
            current_subsection_no, current_subsection_text, parse_stats>>
input == <<file_name, raw_text, hash_seed, pages>>
cleanVars == <<clean_in, clean_once, clean_twice>>
batch == <<input_dir, output_dir, files, idx, all_chunks, all_metadata,
           parsing_report, main_pc, attempts>>
api == <<top_k, response>>
ingestion == <<chroma_path, data_path, ingest_pc, langchain_docs, batch_start>>
services == <<api, ingestion>>
vars == <<input, i, lines, j, locals, metadata, pc, first_result, cleanVars, issues,
          batch, services>>

(***************************************************************************)
(* Input files: every text of at most MaxLines lines drawn from a pool.    *)
(***************************************************************************)
L_SEC_DEF == <<"d1", ".", " ", "paribhasha">>
L_SEC_REF == <<"d2", ".", " ", "dapha", " ", "d1", " ", "pariched", " ", "d2">>
L_SEC_ASCII == <<"1", ".", "a">>
L_SUB == <<"(", "d1", ")", " ", "ka", " ", ",", "kha">>
L_CLAUSE == <<"(", "ka", ")", " ", "upa", "dapha", "(", "d1", ")">>
L_CONT == <<"a", " ", " ", "b">>
L_PART == <<"bhag", " ", "d1", " ", "ka">>
L_CHAP == <<"pariched", "-", "d2", " ", "kha", "danda">>
L_PRE == <<"prastavana">>
L_BLANK == <<" ">>

CorePool == {L_SEC_DEF, L_SEC_REF, L_SEC_ASCII, L_SUB, L_CLAUSE, L_CONT,
             L_PART, L_CHAP, L_PRE, L_BLANK}

\* "\n".join(ls) for every list ls of at most n lines of pool
Texts(pool, n) ==
    {Join(ls, <<"nl">>) : ls \in UNION {[1..k -> pool] : k \in 0..n}}

FileNames == {<<"act">>}

(***************************************************************************)
(* parse_act up to the loop: the locals of lines 141-159.                  *)
(***************************************************************************)
InitLocals ==
    /\ anchor_found = FALSE
    /\ chunks = <<>>
    /\ definitions = <<>>
    /\ cross_references = <<>>
    /\ current_part = <<"Main">>
    /\ current_chapter = <<"General">>
    /\ current_section_no = None
    /\ current_section_title = None
    /\ current_section_full_text = <<>>
    /\ current_subsection_no = None
    /\ current_subsection_text = None
    /\ parse_stats = [sections |-> 0, subsections |-> 0, clauses |-> 0, definitions |-> 0]

NoResult == [done |-> FALSE, chunks |-> <<>>, metadata |-> <<>>]

\* Retriever.__init__ default of NepalLegalRAG.__init__
DefaultTopK == 5

NoBody == [text |-> <<>>, documents |-> <<>>, total |-> 0]

NoResponse == [endpoint |-> "none", status |-> 0, detail |-> <<>>, body |-> NoBody]

\* run_ingestion is not running
NoIngestion ==
    /\ data_path = [exists |-> FALSE, valid |-> FALSE, legal_chunks |-> <<>>]
    /\ ingest_pc = "not run"
    /\ langchain_docs = <<>>
    /\ batch_start = 0

\* neither the HTTP layer nor run_ingestion is running
NoServices ==
    /\ top_k = DefaultTopK
    /\ response = NoResponse
    /\ chroma_path = [exists |-> FALSE, removed |-> FALSE, docs |-> <<>>]
    /\ NoIngestion

\* main is not running: parse_act is called on a text directly
NoBatch ==
    /\ input_dir = [exists |-> TRUE, entries |-> <<>>]
    /\ output_dir = [exists |-> TRUE, created |-> FALSE, artifacts |-> <<>>]
    /\ files = <<>> /\ idx = 0
    /\ all_chunks = <<>> /\ all_metadata = <<>> /\ parsing_report = <<>>
    /\ main_pc = "not run"
    /\ attempts = <<>>

Idle ==
    /\ first_result = NoResult
    /\ clean_in = <<>> /\ clean_once = <<>> /\ clean_twice = <<>>
    /\ issues = <<>>
    /\ NoBatch
    /\ NoServices

\* pages[i-1] read in place of pages[i+1]: the text before the marker
PageLinesBefore(ps, k) == IF k < Len(ps) THEN SplitNL(ps[k]) ELSE <<>>

\* pages[i+1].split('\n') in Python's 0-based indexing, for i inside the range
PageLines(ps, k) == IF k < Len(ps) THEN SplitNL(ps[k + 2]) ELSE <<>>

InitParse(texts) ==
    /\ file_name \in FileNames
    /\ raw_text \in texts
    /\ hash_seed \in HashSeeds
    /\ pages = SplitPages(raw_text)
    /\ i = 1 /\ j = 1
    /\ lines = PageLines(pages, 1)
    /\ InitLocals
    /\ metadata = <<>>
    /\ pc = "parsing"
    /\ Idle

Init == InitParse(Texts(CorePool, MaxLines))

(***************************************************************************)
(* The loop of parse_act: one action per way through the loop body.        *)
(***************************************************************************)
InLoop == pc = "parsing" /\ i < Len(pages)

\* line = line.strip()
line == Strip(lines[j])

\* the number of the first page, whatever page the loop is at
first_page_no == IntOf(pages[2])

\* page_no = int(pages[i])
page_no == IntOf(pages[i + 1])

act_metadata == get_act_metadata(file_name)

act_id == act_metadata.act_identifier

\* the anchor test without the preamble and definitions words
IsAnchorSectionOnly(l) == section_pattern(l).ok

\* the condition of lines 176-179
IsAnchor(l) ==
    IF Contains(l, <<"prastavana">>) THEN TRUE
    ELSE IF Contains(l, <<"paribhasha">>) THEN TRUE
    ELSE IF StartsAt(l, 1, <<"d1", ".">>) THEN TRUE
    ELSE section_pattern(l).ok

\* the next iteration of the two nested for loops
NextLine ==
    IF j < Len(lines) THEN i' = i /\ lines' = lines /\ j' = j + 1
    ELSE i' = i + 2 /\ lines' = PageLines(pages, i + 2) /\ j' = 1

\* the line is non-blank and passes the anchor gate
Offered == InLoop /\ line # <<>> /\ (IF anchor_found THEN TRUE ELSE IsAnchor(line))

\* the test left out
SectionOpenAlways == TRUE

\* the test `and current_section_no` of the subsection and clause branches
SectionOpen == Truthy(current_section_no)

p_m == part_pattern(line)
c_m == chapter_pattern(line)
s_m == section_pattern(line)
sub_m == sub_section_pattern(line)
k_m == clause_pattern(line)

idle == <<input, metadata, pc, first_result, cleanVars, issues, batch, services>>

\* if not line: continue
BlankLine ==
    /\ InLoop /\ line = <<>>
    /\ NextLine
    /\ UNCHANGED <<locals, idle>>

\* the labels read from a line the anchor gate holds back
SeekAnchorReadingLabels ==
    /\ InLoop /\ line # <<>>
    /\ ~anchor_found /\ ~IsAnchor(line)
    /\ current_part' = IF p_m.ok
                       THEN <<"bhag", " ">> \o p_m.g1 \o <<":", " ">> \o clean_text(p_m.g2)
                       ELSE current_part
    /\ current_chapter' = IF ~p_m.ok /\ c_m.ok
                          THEN <<"pariched", " ">> \o c_m.g1 \o <<":", " ">>
                                   \o clean_text(c_m.g2)
                          ELSE current_chapter
    /\ NextLine
    /\ UNCHANGED <<anchor_found, chunks, definitions, cross_references,
                   current_section_no, current_section_title,
                   current_section_full_text, current_subsection_no,
                   current_subsection_text, parse_stats, idle>>

\* if not anchor_found: ... else: continue
SeekAnchor ==
    /\ InLoop /\ line # <<>>
    /\ ~anchor_found /\ ~IsAnchor(line)
    /\ NextLine
    /\ UNCHANGED <<locals, idle>>

\* a part marker that closes the open subsection as well
PartMarkerClosingSubsection ==
    /\ Offered /\ p_m.ok
    /\ anchor_found' = TRUE
    /\ current_part' = <<"bhag", " ">> \o p_m.g1 \o <<":", " ">> \o clean_text(p_m.g2)
    /\ current_subsection_no' = None
    /\ current_subsection_text' = None
    /\ NextLine
    /\ UNCHANGED <<chunks, definitions, cross_references, current_chapter,
                   current_section_no, current_section_title,
                   current_section_full_text, parse_stats, idle>>

PartMarker ==
    /\ Offered /\ p_m.ok
    /\ anchor_found' = TRUE
    /\ current_part' = <<"bhag", " ">> \o p_m.g1 \o <<":", " ">> \o clean_text(p_m.g2)
    /\ NextLine
    /\ UNCHANGED <<chunks, definitions, cross_references, current_chapter,
                   current_section_no, current_section_title,
                   current_section_full_text, current_subsection_no,
                   current_subsection_text, parse_stats, idle>>

ChapterMarker ==
    /\ Offered /\ ~p_m.ok /\ c_m.ok
    /\ anchor_found' = TRUE
    /\ current_chapter' = <<"pariched", " ">> \o c_m.g1 \o <<":", " ">> \o clean_text(c_m.g2)
    /\ NextLine
    /\ UNCHANGED <<chunks, definitions, cross_references, current_part,
                   current_section_no, current_section_title,
                   current_section_full_text, current_subsection_no,
                   current_subsection_text, parse_stats, idle>>

\* a section marker that leaves the subsection of the previous section open
SectionMarkerKeepingSubsection ==
    /\ Offered /\ ~p_m.ok /\ ~c_m.ok /\ s_m.ok
    /\ LET no == s_m.g1
           title == clean_text(s_m.g2)
           cc == create_contextual_content(title, no, None, None, None, None)
           chunk_id == generate_chunk_id(act_id, no, None, None)
           refs == extract_cross_references(title, hash_seed)
           is_def == is_definition_section(title)
           chunk == [content |-> cc[1],
                     content_with_context |-> cc[2],
                     metadata |->
                         [act_name |-> act_metadata.act_name,
                          act_identifier |-> act_id,
                          part |-> current_part,
                          chapter |-> current_chapter,
                          dapha_no |-> no,
                          citation |-> act_metadata.act_name
                                       \o <<",", " ", "dapha", " ">> \o no,
                          page_no |-> page_no,
                          type |-> "section",
                          is_definition |-> is_def,
                          cross_references |-> refs,
                          hierarchy_level |-> 1],
                     chunk_id |-> chunk_id]
       IN /\ current_section_no' = no
          /\ current_section_title' = title
          /\ current_section_full_text' = <<title>>
          /\ UNCHANGED <<current_subsection_no, current_subsection_text>>
          /\ chunks' = Append(chunks, chunk)
          /\ parse_stats' = [parse_stats EXCEPT !.sections = @ + 1]
          /\ definitions' = IF is_def THEN Append(definitions, chunk_id) ELSE definitions
          /\ cross_references' = IF refs # <<>> THEN (chunk_id :> refs) @@ cross_references
                                 ELSE cross_references
    /\ anchor_found' = TRUE
    /\ NextLine
    /\ UNCHANGED <<current_part, current_chapter, idle>>

SectionMarker ==
    /\ Offered /\ ~p_m.ok /\ ~c_m.ok /\ s_m.ok
    /\ LET no == s_m.g1
           title == clean_text(s_m.g2)
           cc == create_contextual_content(title, no, None, None, None, None)
           chunk_id == generate_chunk_id(act_id, no, None, None)
           refs == extract_cross_references(title, hash_seed)
           is_def == is_definition_section(title)
           chunk == [content |-> cc[1],
                     content_with_context |-> cc[2],
                     metadata |->
                         [act_name |-> act_metadata.act_name,
                          act_identifier |-> act_id,
                          part |-> current_part,
                          chapter |-> current_chapter,
                          dapha_no |-> no,
                          citation |-> act_metadata.act_name
                                       \o <<",", " ", "dapha", " ">> \o no,
                          page_no |-> page_no,
                          type |-> "section",
                          is_definition |-> is_def,
                          cross_references |-> refs,
                          hierarchy_level |-> 1],
                     chunk_id |-> chunk_id]
       IN /\ current_section_no' = no
          /\ current_section_title' = title
          /\ current_section_full_text' = <<title>>
          /\ current_subsection_no' = None
          /\ current_subsection_text' = None
          /\ chunks' = Append(chunks, chunk)
          /\ parse_stats' = [parse_stats EXCEPT !.sections = @ + 1]
          /\ definitions' = IF is_def THEN Append(definitions, chunk_id) ELSE definitions
          /\ cross_references' = IF refs # <<>> THEN (chunk_id :> refs) @@ cross_references
                                 ELSE cross_references
    /\ anchor_found' = TRUE
    /\ NextLine
    /\ UNCHANGED <<current_part, current_chapter, idle>>

SubsectionMarker ==
    /\ Offered /\ ~p_m.ok /\ ~c_m.ok /\ ~s_m.ok
    /\ sub_m.ok /\ SectionOpen
    /\ LET no == sub_m.g1
           text == clean_text(sub_m.g2)
           cc == create_contextual_content(current_section_title, current_section_no,
                                           text, no, None, None)
           chunk_id == generate_chunk_id(act_id, current_section_no, no, None)
           refs == extract_cross_references(text, hash_seed)
           chunk == [content |-> cc[1],
                     content_with_context |-> cc[2],
                     metadata |->
                         [act_name |-> act_metadata.act_name,
                          act_identifier |-> act_id,
                          part |-> current_part,
                          chapter |-> current_chapter,
                          dapha_no |-> current_section_no,
                          sub_section_no |-> no,
                          citation |-> act_metadata.act_name
                                       \o <<",", " ", "dapha", " ">> \o current_section_no
                                       \o <<"(">> \o no \o <<")">>,
                          page_no |-> page_no,
                          type |-> "sub_section",
                          parent_section_title |-> current_section_title,
                          cross_references |-> refs,
                          hierarchy_level |-> 2],
                     chunk_id |-> chunk_id]
       IN /\ current_subsection_no' = no
          /\ current_subsection_text' = text
          /\ current_section_full_text' =
                 Append(current_section_full_text, <<"(">> \o no \o <<")", " ">> \o text)
          /\ chunks' = Append(chunks, chunk)
          /\ parse_stats' = [parse_stats EXCEPT !.subsections = @ + 1]
          /\ cross_references' = IF refs # <<>> THEN (chunk_id :> refs) @@ cross_references
                                 ELSE cross_references
    /\ anchor_found' = TRUE
    /\ NextLine
    /\ UNCHANGED <<definitions, current_part, current_chapter, current_section_no,
                   current_section_title, idle>>

ClauseMarker ==
    /\ Offered /\ ~p_m.ok /\ ~c_m.ok /\ ~s_m.ok
    /\ ~(sub_m.ok /\ SectionOpen)
    /\ k_m.ok /\ SectionOpen
    /\ LET khanda_label == k_m.g1
           khanda_text == clean_text(k_m.g2)
           cc == create_contextual_content(current_section_title, current_section_no,
                                           current_subsection_text, current_subsection_no,
                                           khanda_text, khanda_label)
           chunk_id == generate_chunk_id(act_id, current_section_no,
                                         current_subsection_no, khanda_label)
           refs == extract_cross_references(khanda_text, hash_seed)
           citation_parts ==
               <<act_metadata.act_name \o <<",", " ", "dapha", " ">> \o current_section_no>>
               \o (IF Truthy(current_subsection_no)
                   THEN << <<"(">> \o current_subsection_no \o <<")">> >> ELSE <<>>)
               \o << <<"(">> \o khanda_label \o <<")">> >>
           chunk == [content |-> cc[1],
                     content_with_context |-> cc[2],
                     metadata |->
                         [act_name |-> act_metadata.act_name,
                          act_identifier |-> act_id,
                          part |-> current_part,
                          chapter |-> current_chapter,
                          dapha_no |-> current_section_no,
                          sub_section_no |-> current_subsection_no,
                          khanda_label |-> khanda_label,
                          citation |-> Join(citation_parts, <<>>),
                          page_no |-> page_no,
                          type |-> "clause",
                          parent_section_title |-> current_section_title,
                          cross_references |-> refs,
                          hierarchy_level |-> 3],
                     chunk_id |-> chunk_id]
       IN /\ current_section_full_text' =
                 Append(current_section_full_text,
                        <<"(">> \o khanda_label \o <<")", " ">> \o khanda_text)
          /\ chunks' = Append(chunks, chunk)
          /\ parse_stats' = [parse_stats EXCEPT !.clauses = @ + 1]
          /\ cross_references' = IF refs # <<>> THEN (chunk_id :> refs) @@ cross_references
                                 ELSE cross_references
    /\ anchor_found' = TRUE
    /\ NextLine
    /\ UNCHANGED <<definitions, current_part, current_chapter, current_section_no,
                   current_section_title, current_subsection_no,
                   current_subsection_text, idle>>

\* no marker claimed the line
Unmarked ==
    /\ Offered /\ ~p_m.ok /\ ~c_m.ok /\ ~s_m.ok
    /\ ~(sub_m.ok /\ SectionOpen)
    /\ ~(k_m.ok /\ SectionOpen)

\* the chunk before the last one, where there is one, in place of the last
PreviousChunkIndex == IF Len(chunks) > 1 THEN Len(chunks) - 1 ELSE Len(chunks)

\* the index -1 of chunks[-1]
LastChunkIndex == Len(chunks)

\* if chunks: append the cleaned line to chunks[-1]
Continuation ==
    /\ Unmarked /\ chunks # <<>>
    /\ LET cleaned_line == clean_text(line)
           last == chunks[LastChunkIndex]
       IN /\ chunks' = [chunks EXCEPT ![LastChunkIndex] =
                 [last EXCEPT !.content = @ \o <<" ">> \o cleaned_line,
                              !.content_with_context = @ \o <<" ">> \o cleaned_line]]
          /\ current_section_full_text' = Append(current_section_full_text, cleaned_line)
    /\ anchor_found' = TRUE
    /\ NextLine
    /\ UNCHANGED <<definitions, cross_references, current_part, current_chapter,
                   current_section_no, current_section_title, current_subsection_no,
                   current_subsection_text, parse_stats, idle>>

\* the line falls through the loop body: nothing holds it
Discard ==
    /\ Unmarked /\ chunks = <<>>
    /\ anchor_found' = TRUE
    /\ NextLine
    /\ UNCHANGED <<chunks, definitions, cross_references, current_part, current_chapter,
                   current_section_no, current_section_title, current_section_full_text,
                   current_subsection_no, current_subsection_text, parse_stats, idle>>

\* the counter left as the loop left it
definitions_not_counted == parse_stats.definitions

\* len(definitions), line 343
definitions_count == Len(definitions)

\* lines 339-356: the comprehensive chunks, the statistics, the validation
Finish ==
    /\ pc = "parsing" /\ ~(i < Len(pages))
    /\ LET all == IF chunks # <<>>
                  THEN chunks \o create_comprehensive_chunks(chunks, act_metadata)
                  ELSE chunks
           stats == [parse_stats EXCEPT !.definitions = definitions_count]
       IN /\ chunks' = all
          /\ parse_stats' = stats
          /\ metadata' = [act_name |-> act_metadata.act_name,
                          act_identifier |-> act_metadata.act_identifier,
                          source_filename |-> act_metadata.source_filename,
                          total_chunks |-> Len(all),
                          parse_statistics |-> stats,
                          definition_sections |-> definitions,
                          cross_reference_map |-> cross_references,
                          validation_issues |-> validate_parse_quality(all, stats, raw_text)]
    /\ pc' = "done"
    /\ UNCHANGED <<input, i, lines, j, anchor_found, definitions, cross_references,
                   current_part, current_chapter, current_section_no,
                   current_section_title, current_section_full_text,
                   current_subsection_no, current_subsection_text,
                   first_result, cleanVars, issues, batch, services>>

ParseStep ==
    \/ BlankLine
    \/ SeekAnchor
    \/ PartMarker
    \/ ChapterMarker
    \/ SectionMarker
    \/ SubsectionMarker
    \/ ClauseMarker
    \/ Continuation
    \/ Discard
    \/ Finish

Next == ParseStep

Spec == Init /\ [][Next]_vars

(***************************************************************************)
(* The same file parsed a second time by a new process (a second run of    *)
(* the batch script): the first result is kept, the salt is drawn again.   *)
(***************************************************************************)
Restart ==
    /\ pc = "done" /\ ~first_result.done
    /\ first_result' = [done |-> TRUE, chunks |-> chunks, metadata |-> metadata]
    /\ hash_seed' \in HashSeeds
    /\ i' = 1 /\ j' = 1 /\ lines' = PageLines(pages, 1)
    /\ anchor_found' = FALSE
    /\ chunks' = <<>>
    /\ definitions' = <<>>
    /\ cross_references' = <<>>
    /\ current_part' = <<"Main">>
    /\ current_chapter' = <<"General">>
    /\ current_section_no' = None
    /\ current_section_title' = None
    /\ current_section_full_text' = <<>>
    /\ current_subsection_no' = None
    /\ current_subsection_text' = None
    /\ parse_stats' = [sections |-> 0, subsections |-> 0, clauses |-> 0, definitions |-> 0]
    /\ metadata' = <<>>
    /\ pc' = "parsing"
    /\ UNCHANGED <<file_name, raw_text, pages, cleanVars, issues, batch, services>>

InitTwice == InitParse(Texts(CorePool, MaxTwiceLines))

NextTwice == ParseStep \/ Restart

SpecTwice == InitTwice /\ [][NextTwice]_vars

(***************************************************************************)
(* clean_text applied to a string, then to its own result.                 *)
(***************************************************************************)
CleanAlphabet == {"1", "d1", " ", "nl", "bullet", "www", "rajpatra", "bhag",
                  "danda", ",", "a"}

CleanInputs == UNION {[1..k -> CleanAlphabet] : k \in 0..MaxCleanLen}

NoParse ==
    /\ file_name = <<"act">>
    /\ hash_seed = 1
    /\ pages = <<>>
    /\ i = 1 /\ j = 1 /\ lines = <<>>
    /\ InitLocals
    /\ metadata = <<>>
    /\ first_result = NoResult
    /\ NoBatch

InitClean ==
    /\ clean_in \in CleanInputs
    /\ clean_once = <<>> /\ clean_twice = <<>>
    /\ pc = "clean"
    /\ raw_text = <<>>
    /\ issues = <<>>
    /\ NoParse
    /\ NoServices

CleanOnce ==
    /\ pc = "clean"
    /\ clean_once' = clean_text(clean_in)
    /\ pc' = "cleaned"
    /\ UNCHANGED <<input, i, lines, j, locals, metadata, first_result,
                   clean_in, clean_twice, issues, batch, services>>

CleanAgain ==
    /\ pc = "cleaned"
    /\ clean_twice' = clean_text(clean_once)
    /\ pc' = "cleaned twice"
    /\ UNCHANGED <<input, i, lines, j, locals, metadata, first_result,
                   clean_in, clean_once, issues, batch, services>>

NextClean == CleanOnce \/ CleanAgain

SpecClean == InitClean /\ [][NextClean]_vars

(***************************************************************************)
(* validate_parse_quality called on arbitrary arguments.                   *)
(***************************************************************************)
AnyChunk == [content |-> <<"a">>, content_with_context |-> <<"a">>,
             metadata |-> [type |-> "section"], chunk_id |-> <<"a">>]

ValRawTexts == {<<>>, <<"a">>, <<"1", ".", " ", "a", "nl", "b">>,
                <<"ka">>, <<"a", "nl", "d1", ".", " ", "paribhasha">>}

InitValidate ==
    /\ raw_text \in ValRawTexts
    /\ \E n \in 0..MaxValChunks : chunks = [k \in 1..n |-> AnyChunk]
    /\ \E a \in 0..MaxValStat, b \in 0..MaxValStat, c \in 0..MaxValStat :
           parse_stats = [sections |-> a, subsections |-> b, clauses |-> c,
                          definitions |-> 0]
    /\ pc = "validate"
    /\ issues = <<>>
    /\ file_name = <<"act">>
    /\ hash_seed = 1
    /\ pages = <<>>
    /\ i = 1 /\ j = 1 /\ lines = <<>>
    /\ anchor_found = FALSE
    /\ definitions = <<>>
    /\ cross_references = <<>>
    /\ current_part = <<"Main">>
    /\ current_chapter = <<"General">>
    /\ current_section_no = None
    /\ current_section_title = None
    /\ current_section_full_text = <<>>
    /\ current_subsection_no = None
    /\ current_subsection_text = None
    /\ metadata = <<>>
    /\ first_result = NoResult
    /\ clean_in = <<>> /\ clean_once = <<>> /\ clean_twice = <<>>
    /\ NoBatch
    /\ NoServices

Validate ==
    /\ pc = "validate"
    /\ issues' = validate_parse_quality(chunks, parse_stats, raw_text)
    /\ pc' = "validated"
    /\ UNCHANGED <<input, i, lines, j, locals, metadata, first_result, cleanVars, batch,
                   services>>

NextValidate == Validate

SpecValidate == InitValidate /\ [][NextValidate]_vars

(***************************************************************************)
(* Files on disk and the reading of a file by parse_act (lines 127-136).   *)
(* A file is a sequence of encoded characters: the lexemes of the text,    *)
(* "bom" for the signature EF BB BF and "bad" for a byte that no UTF-8     *)
(* sequence has.                                                           *)
(***************************************************************************)
MaxFiles == 3

Fail(e) == [ok |-> FALSE, text |-> <<>>, error |-> e]
Done(t) == [ok |-> TRUE, text |-> t, error |-> "none"]

\* the characters outside ASCII
NonAscii == Devanagari \cup Glyphs \cup {"bom"}

\* open(file_path, 'r', encoding='utf-8').read(): the signature stays in the
\* text as the character U+FEFF
decode_utf_8(b) ==
    IF "bad" \in SeqRange(b) THEN Fail("UnicodeDecodeError") ELSE Done(b)

\* encoding='utf-8-sig': a leading signature is dropped
decode_utf_8_sig(b) ==
    IF "bad" \in SeqRange(b) THEN Fail("UnicodeDecodeError")
    ELSE IF b # <<>> /\ b[1] = "bom" THEN Done(Tail(b))
    ELSE Done(b)

\* encoding='latin-1': every byte is a character; the bytes of a character
\* outside ASCII and the byte "bad" come out as Latin-1 letters
decode_latin_1(b) ==
    Done([k \in 1..Len(b) |-> IF b[k] \in NonAscii \cup {"bad"} THEN "latin" ELSE b[k]])

decode(encoding, b) ==
    CASE encoding = "utf-8" -> decode_utf_8(b)
      [] encoding = "utf-8-sig" -> decode_utf_8_sig(b)
      [] OTHER -> decode_latin_1(b)

\* one `with open(...) as f: raw_text = f.read()`; os_error: open() raises
\* OSError (the file cannot be opened)
OpenAndRead(encoding, b, os_error) ==
    LET r == IF os_error THEN Fail("OSError") ELSE decode(encoding, b)
    IN [encoding |-> encoding, ok |-> r.ok, text |-> r.text, error |-> r.error]

\* a handler that catches every exception
CaughtAlways(a) == ~a.ok

\* `except UnicodeDecodeError:` of line 130
CaughtByFirstExcept(a) == ~a.ok /\ a.error = "UnicodeDecodeError"

\* the bare `except:` of line 134 catches every failure of the second attempt
CaughtBySecondExcept(a) == ~a.ok

\* lines 127-136: the attempts made, in order; the last one decides
read_file(b, os_errors) ==
    LET a1 == OpenAndRead("utf-8", b, os_errors[1])
        a2 == OpenAndRead("utf-8-sig", b, os_errors[2])
        a3 == OpenAndRead("latin-1", b, os_errors[3])
    IN IF ~CaughtByFirstExcept(a1) THEN <<a1>>
       ELSE IF ~CaughtBySecondExcept(a2) THEN <<a1, a2>>
       ELSE <<a1, a2, a3>>

\* what open() does on each of the three calls
OsErrors == [1..3 -> BOOLEAN]

F_RICH ==
    Join(<<L_PART, L_PRE, L_CONT, L_PART, L_CHAP, L_SEC_DEF, L_SUB, L_CLAUSE,
           L_CONT, L_BLANK>>, <<"nl">>)
F_EMPTY == <<>>
F_BOM == <<"bom">> \o L_SEC_DEF
F_LATIN == L_SEC_ASCII \o <<"bad">>

FileBytes == {F_RICH, F_EMPTY, F_BOM, F_LATIN}

\* the k-th name of a directory listing, without its extension
NameOf(k) == <<"act">> \o [n \in 1..k |-> "a"]

\* the entries os.listdir can return: .txt files and other entries
Entry(k, b, txt) == [name |-> NameOf(k), bytes |-> b, txt |-> txt]

Listings ==
    UNION {[1..n -> FileBytes \cup {<<"other">>}] : n \in 0..MaxFiles}

EntriesOf(l) ==
    [k \in 1..Len(l) |->
        IF l[k] = <<"other">> THEN Entry(k, <<>>, FALSE) ELSE Entry(k, l[k], TRUE)]

(***************************************************************************)
(* main: the batch over the .txt files of INPUT_DIR.  Writing to the       *)
(* console is taken to succeed and is not modelled.                        *)
(***************************************************************************)
InitBatch ==
    /\ \E e \in BOOLEAN, l \in Listings :
           input_dir = [exists |-> e, entries |-> IF e THEN EntriesOf(l) ELSE <<>>]
    /\ \E e \in BOOLEAN : output_dir = [exists |-> e, created |-> FALSE, artifacts |-> <<>>]
    /\ files = <<>> /\ idx = 0
    /\ all_chunks = <<>> /\ all_metadata = <<>> /\ parsing_report = <<>>
    /\ main_pc = "start"
    /\ attempts = <<>>
    /\ file_name = <<>> /\ raw_text = <<>>
    /\ hash_seed \in HashSeeds
    /\ pages = <<>>
    /\ i = 1 /\ j = 1 /\ lines = <<>>
    /\ InitLocals
    /\ metadata = <<>>
    /\ pc = "not called"
    /\ first_result = NoResult
    /\ clean_in = <<>> /\ clean_once = <<>> /\ clean_twice = <<>>
    /\ issues = <<>>
    /\ NoServices

parseVars == <<input, i, lines, j, locals, metadata, pc>>
unused == <<first_result, cleanVars, issues, services>>

\* lines 422-423: OUTPUT_DIR is made when it is missing
EnsureOutputDir ==
    /\ main_pc = "start"
    /\ output_dir' = IF output_dir.exists THEN output_dir
                     ELSE [output_dir EXCEPT !.exists = TRUE, !.created = TRUE]
    /\ main_pc' = "check input"
    /\ UNCHANGED <<input_dir, files, idx, all_chunks, all_metadata, parsing_report,
                   attempts, parseVars, unused>>

\* os.makedirs raises: the exception leaves main
MakedirsRaises ==
    /\ main_pc = "start" /\ ~output_dir.exists
    /\ main_pc' = "raised"
    /\ UNCHANGED <<input_dir, output_dir, files, idx, all_chunks, all_metadata,
                   parsing_report, attempts, parseVars, unused>>

\* the test left out
input_dir_assumed == TRUE

\* os.path.exists(INPUT_DIR)
input_dir_exists == input_dir.exists

\* lines 427-429
InputDirMissing ==
    /\ main_pc = "check input" /\ ~input_dir_exists
    /\ main_pc' = "no input directory"
    /\ UNCHANGED <<input_dir, output_dir, files, idx, all_chunks, all_metadata,
                   parsing_report, attempts, parseVars, unused>>

\* [f for f in os.listdir(INPUT_DIR) if f.endswith('.txt')]
txt_files == SelectSeq(input_dir.entries, LAMBDA f : f.txt)

\* lines 431-435
NoTxtFiles ==
    /\ main_pc = "check input" /\ input_dir_exists
    /\ txt_files = <<>>
    /\ files' = txt_files
    /\ main_pc' = "no txt files"
    /\ UNCHANGED <<input_dir, output_dir, idx, all_chunks, all_metadata,
                   parsing_report, attempts, parseVars, unused>>

\* lines 431-441
ListFiles ==
    /\ main_pc = "check input" /\ input_dir_exists
    /\ txt_files # <<>>
    /\ files' = txt_files
    /\ idx' = 1
    /\ main_pc' = "loop"
    /\ UNCHANGED <<input_dir, output_dir, all_chunks, all_metadata,
                   parsing_report, attempts, parseVars, unused>>

\* the loop left at the first failure
stop_batch(k) == Len(files) + 1

\* the for loop of line 443 goes on with the next file
next_file(k) == k + 1

\* the list replaced by the new items
replaced_by(list, items) == items

\* all_chunks.extend(...)
extend(list, items) == list \o items

\* lines 443-455 and 127-164: parse_act is called on the next file and reads it
CallParseAct ==
    /\ main_pc = "loop" /\ idx <= Len(files)
    /\ \E os_errors \in OsErrors :
           LET tried == read_file(files[idx].bytes, os_errors)
               last == tried[Len(tried)]
           IN /\ last.ok
              /\ attempts' = tried
              /\ raw_text' = last.text
              /\ pages' = SplitPages(last.text)
              /\ lines' = PageLines(SplitPages(last.text), 1)
    /\ file_name' = files[idx].name
    /\ i' = 1 /\ j' = 1
    /\ anchor_found' = FALSE
    /\ chunks' = <<>>
    /\ definitions' = <<>>
    /\ cross_references' = <<>>
    /\ current_part' = <<"Main">>
    /\ current_chapter' = <<"General">>
    /\ current_section_no' = None
    /\ current_section_title' = None
    /\ current_section_full_text' = <<>>
    /\ current_subsection_no' = None
    /\ current_subsection_text' = None
    /\ parse_stats' = [sections |-> 0, subsections |-> 0, clauses |-> 0, definitions |-> 0]
    /\ metadata' = <<>>
    /\ pc' = "parsing"
    /\ main_pc' = "in parse_act"
    /\ UNCHANGED <<hash_seed, input_dir, output_dir, files, idx, all_chunks,
                   all_metadata, parsing_report, unused>>

\* lines 454-455 and 477-484: the read raises, the handler of main records it
ParseActRaises ==
    /\ main_pc = "loop" /\ idx <= Len(files)
    /\ \E os_errors \in OsErrors :
           LET tried == read_file(files[idx].bytes, os_errors)
               last == tried[Len(tried)]
           IN /\ ~last.ok
              /\ attempts' = tried
              /\ parsing_report' =
                     Append(parsing_report,
                            [file |-> files[idx].name \o <<".txt">>,
                             decoded_name |-> files[idx].name \o <<".txt">>,
                             status |-> "failed",
                             error |-> last.error])
    /\ idx' = next_file(idx)
    /\ UNCHANGED <<input_dir, output_dir, files, all_chunks, all_metadata, main_pc,
                   parseVars, unused>>

\* lines 455-475: parse_act has returned, its result is collected
Collect ==
    /\ main_pc = "in parse_act" /\ pc = "done"
    /\ all_chunks' = extend(all_chunks, chunks)
    /\ all_metadata' = Append(all_metadata, metadata)
    /\ parsing_report' =
           Append(parsing_report,
                  [file |-> files[idx].name \o <<".txt">>,
                   decoded_name |-> files[idx].name \o <<".txt">>,
                   status |-> "success",
                   chunks |-> Len(chunks),
                   statistics |-> metadata.parse_statistics,
                   issues |-> metadata.validation_issues])
    /\ idx' = next_file(idx)
    /\ main_pc' = "loop"
    /\ pc' = "returned"
    /\ UNCHANGED <<input_dir, output_dir, files, attempts, input, i, lines, j, locals,
                   metadata, unused>>

\* lines 486-496: the three output files
WriteOutputs ==
    /\ main_pc = "loop" /\ idx > Len(files)
    /\ output_dir' =
           [output_dir EXCEPT !.artifacts =
               <<[name |-> "vidhi_rag_enhanced.json", content |-> all_chunks],
                 [name |-> "acts_metadata.json", content |-> all_metadata],
                 [name |-> "parsing_report.json", content |-> parsing_report]>>]
    /\ main_pc' = "written"
    /\ UNCHANGED <<input_dir, files, idx, all_chunks, all_metadata, parsing_report,
                   attempts, parseVars, unused>>

NextBatch ==
    \/ EnsureOutputDir
    \/ MakedirsRaises
    \/ InputDirMissing
    \/ NoTxtFiles
    \/ ListFiles
    \/ CallParseAct
    \/ ParseActRaises
    \/ ParseStep
    \/ Collect
    \/ WriteOutputs

SpecBatch == InitBatch /\ [][NextBatch]_vars

(***************************************************************************)
(* parse_act on texts that hold page markers, well formed or not.          *)
(***************************************************************************)
MaxPageLines == 4

L_PAGE == <<"PAGE", " ", "2", " ", "---">>
L_BADPAGE == <<"PAGE", " ", "a">>

L_MARKER == <<"shabdartha">>

PagePool == {L_SEC_DEF, L_SUB, L_CLAUSE, L_CONT, L_PART, L_CHAP, L_PRE,
             L_MARKER, L_PAGE, L_BADPAGE}

InitPages == InitParse(Texts(PagePool, MaxPageLines))

SpecPages == InitPages /\ [][Next]_vars

(***************************************************************************)
(* parse_act on texts where a marker line can end right after its marker,  *)
(* or name the same numeral twice after it.                                *)
(***************************************************************************)
MaxMarkerLines == 3

L_SEC_BARE == <<"d2", ".">>
L_SUB_BARE == <<"(", "d2", ")">>
L_CLAUSE_BARE == <<"(", "kha", ")", " ">>

L_SUB_REF == <<"(", "d2", ")", " ", "dapha", " ", "d1", " ", "upa", "dapha", "(", "d1", ")">>

\* the section number of L_SEC_REF once more, another section named after it
L_SEC_REF_AGAIN == <<"d2", ".", " ", "dapha", " ", "d2">>

MarkerPool == {L_SEC_DEF, L_SEC_REF, L_SEC_REF_AGAIN, L_SEC_BARE, L_SUB, L_SUB_REF,
               L_SUB_BARE, L_CLAUSE, L_CLAUSE_BARE, L_CONT, L_PART, L_CHAP, L_PRE}

InitMarkers == InitParse(Texts(MarkerPool, MaxMarkerLines))

SpecMarkers == InitMarkers /\ [][Next]_vars

(***************************************************************************)
(* parse_act on texts whose section numbers recur, on one page or on two.  *)
(***************************************************************************)
MaxGroupLines == 4

L_PAGE_ONE == <<"PAGE", " ", "1", " ", "---">>

GroupPool == {L_SEC_DEF, L_SEC_REF, L_SUB, L_CLAUSE, L_CONT, L_PART, L_CHAP, L_PRE,
              L_PAGE_ONE, L_PAGE}

InitGroups == InitParse(Texts(GroupPool, MaxGroupLines))

SpecGroups == InitGroups /\ [][Next]_vars

(***************************************************************************)
(* parse_act on texts that write one section number in several ways.       *)
(***************************************************************************)
MaxNumberLines == 4

L_SEC_ZERO == <<"0", "1", ".", "b">>

NumberPool == {L_SEC_DEF, L_SEC_ASCII, L_SEC_ZERO, L_SUB, L_CLAUSE, L_CONT,
               L_PART, L_CHAP, L_PRE}

InitNumbers == InitParse(Texts(NumberPool, MaxNumberLines))

SpecNumbers == InitNumbers /\ [][Next]_vars

(***************************************************************************)
(* The HTTP layer (controllers/rag_controller.py).  One rag_instance is    *)
(* shared by every request.  No handler awaits anything, so a request runs *)
(* from its first line to its response as one step.  The retriever reads   *)
(* the collection kept under chroma_storage.                               *)
(***************************************************************************)
MaxStoreDocs == 2

ActNames == {<<"act">>, <<"purna">>}

\* a stored document: page_content and the metadata keys the answers show
StoreDocs ==
    { [page_content |-> <<"text">>, metadata |-> [act_name |-> a, page_no |-> n]] :
          a \in ActNames \cup {None}, n \in {1, 2} }

Collections == UNION {[1..k -> StoreDocs] : k \in 0..MaxStoreDocs}

Queries == {<<"dapha", " ", "d1">>, <<"kanun">>}
TopKs == {1, 2, DefaultTopK}

Reverse(s) == [k \in 1..Len(s) |-> s[Len(s) + 1 - k]]

\* Chroma.similarity_search(query, k): the k stored documents nearest to the
\* query; which documents are nearest depends on the query
similarity_search(query, k) ==
    LET ranked == IF query = <<"kanun">> THEN Reverse(chroma_path.docs)
                  ELSE chroma_path.docs
    IN  SubSeq(ranked, 1, IF k < Len(ranked) THEN k ELSE Len(ranked))

\* Retriever.retrieve with the top_k in force
retrieve(query, k) == similarity_search(query, k)

\* NepalLegalRAG.retrieve_context on what the retriever returned
retrieve_context(results, act_name) ==
    LET docs == [n \in 1..Len(results) |->
                     [content |-> results[n].page_content,
                      metadata |-> results[n].metadata]]
    IN  IF Truthy(act_name)
        THEN SelectSeq(docs, LAMBDA d : d.metadata.act_name = act_name)
        ELSE docs

\* str() of a page number; str() of text is the text itself
str(n) == IF n = 1 THEN <<"1">> ELSE <<"2">>

cast_metadata_to_str(m) ==
    [act_name |-> m.act_name,
     dapha_no |-> None, part |-> None, chapter |-> None,
     page_no  |-> str(m.page_no),
     citation |-> None]

formatted_docs(retrieved_docs) ==
    [n \in 1..Len(retrieved_docs) |->
         [content |-> retrieved_docs[n].content,
          metadata |-> cast_metadata_to_str(retrieved_docs[n].metadata)]]

\* what chain.stream yields in all
Answers == {<<"dapha", " ", "d1">>, <<"Section", " ", "1">>, <<"text">>}

INSUFFICIENT == <<"nl", "nl", "Note: Insufficient legal context">>

with_note(answer_text) ==
    IF \A n \in 1..Len(answer_text) : answer_text[n] \notin {"dapha", "Section"}
    THEN answer_text \o INSUFFICIENT
    ELSE answer_text

\* an exception of the retriever or of the language model, and its str()
RuntimeError == [type |-> "RuntimeError", text |-> <<"connection failed">>]

HTTPException(status_code, detail) ==
    [type |-> "HTTPException", status_code |-> status_code, detail |-> detail]

\* str(e): HTTPException prints its status and its detail
str_e(e) ==
    IF e.type = "HTTPException"
    THEN <<IF e.status_code = 404 THEN "404" ELSE "500", ": ">> \o e.detail
    ELSE e.text

Raised(endpoint, e) ==
    [endpoint |-> endpoint, status |-> e.status_code, detail |-> e.detail,
     body |-> NoBody]

Returned(endpoint, body) ==
    [endpoint |-> endpoint, status |-> 200, detail |-> <<>>, body |-> body]

NOT_FOUND_ASK == <<"No relevant legal documents found for your question">>
NOT_FOUND_RETRIEVE == <<"No relevant documents found">>

\* lines 109-110: every exception of the body, HTTPException included
ask_except(e) ==
    Raised("ask", HTTPException(500, <<"Error generating answer: ">> \o str_e(e)))

\* lines 67-110; fails: the retriever raises, llm_fails: chain.stream raises
ask_legal_question(question, act_name, request_top_k, fails, llm_fails, answer) ==
    LET retrieved_docs == retrieve_context(retrieve(question, request_top_k), act_name)
    IN  /\ top_k' = request_top_k
        /\ response' =
               IF fails THEN ask_except(RuntimeError)
               ELSE IF retrieved_docs = <<>>
               THEN ask_except(HTTPException(404, NOT_FOUND_ASK))
               ELSE IF llm_fails THEN ask_except(RuntimeError)
               ELSE Returned("ask",
                        [text |-> with_note(answer),
                         documents |-> formatted_docs(retrieved_docs),
                         total |-> Len(retrieved_docs)])

Ask ==
    /\ \E question \in Queries, act_name \in ActNames \cup {None},
          request_top_k \in TopKs, fails \in BOOLEAN, llm_fails \in BOOLEAN,
          answer \in Answers :
           ask_legal_question(question, act_name, request_top_k, fails, llm_fails, answer)
    /\ UNCHANGED <<parseVars, first_result, cleanVars, issues, batch, ingestion>>

\* lines 142-145: an HTTPException passes, any other exception becomes a 500
retrieve_except(e) ==
    IF e.type = "HTTPException" THEN Raised("retrieve", e)
    ELSE Raised("retrieve",
                HTTPException(500, <<"Error retrieving documents: ">> \o str_e(e)))

\* lines 112-145: line 123 puts the old top_k back once retrieve_context returned
retrieve_documents(query, act_name, request_top_k, fails) ==
    LET original_top_k == top_k
        retrieved_docs == retrieve_context(retrieve(query, request_top_k), act_name)
    IN  /\ top_k' = IF fails THEN request_top_k ELSE original_top_k
        /\ response' =
               IF fails THEN retrieve_except(RuntimeError)
               ELSE IF retrieved_docs = <<>>
               THEN retrieve_except(HTTPException(404, NOT_FOUND_RETRIEVE))
               ELSE Returned("retrieve",
                        [text |-> <<>>,
                         documents |-> formatted_docs(retrieved_docs),
                         total |-> Len(retrieved_docs)])

Retrieve ==
    /\ \E query \in Queries, act_name \in ActNames \cup {None},
          request_top_k \in TopKs, fails \in BOOLEAN :
           retrieve_documents(query, act_name, request_top_k, fails)
    /\ UNCHANGED <<parseVars, first_result, cleanVars, issues, batch, ingestion>>

\* sorted(set(...)) of the act names, by code point
SortedActs(S) ==
    (IF <<"act">> \in S THEN <<"act">> ELSE <<>>) \o
    (IF <<"purna">> \in S THEN <<"purna">> ELSE <<>>)

\* lines 147-166: the acts among the documents nearest to the query
list_available_acts(query, fails) ==
    LET retrieved_docs ==
            retrieve_context(retrieve(IF Truthy(query) THEN query ELSE <<"kanun">>, top_k),
                             None)
        acts == SortedActs({retrieved_docs[n].metadata.act_name :
                               n \in {m \in 1..Len(retrieved_docs) :
                                         Truthy(retrieved_docs[m].metadata.act_name)}})
    IN  /\ response' =
               IF fails
               THEN Raised("acts",
                        HTTPException(500, <<"Error listing acts: ">> \o str_e(RuntimeError)))
               ELSE Returned("acts", [text |-> acts, documents |-> <<>>, total |-> Len(acts)])
        /\ top_k' = top_k

ListActs ==
    /\ \E query \in Queries \cup {None}, fails \in BOOLEAN : list_available_acts(query, fails)
    /\ UNCHANGED <<parseVars, first_result, cleanVars, issues, batch, ingestion>>

\* lines 168-184: a failure is reported in the body, with status 200
health_check(fails) ==
    /\ response' = Returned("health",
                       [text |-> IF fails THEN <<"unhealthy">> \o str_e(RuntimeError)
                                 ELSE <<"healthy">>,
                        documents |-> <<>>, total |-> 0])
    /\ top_k' = top_k

Health ==
    /\ \E fails \in BOOLEAN : health_check(fails)
    /\ UNCHANGED <<parseVars, first_result, cleanVars, issues, batch, ingestion>>

\* no parse, no clean_text call and no batch is running
Parked ==
    /\ raw_text = <<>>
    /\ pc = "not called"
    /\ clean_in = <<>> /\ clean_once = <<>> /\ clean_twice = <<>>
    /\ issues = <<>>
    /\ NoParse

InitApi ==
    /\ top_k = DefaultTopK
    /\ response = NoResponse
    /\ \E docs \in Collections :
           chroma_path = [exists |-> TRUE, removed |-> FALSE, docs |-> docs]
    /\ NoIngestion
    /\ Parked

NextApi == Ask \/ Retrieve \/ ListActs \/ Health

SpecApi == InitApi /\ [][NextApi]_vars

(***************************************************************************)
(* run_ingestion (services/ingestion.py): the parsed chunks are loaded     *)
(* into a fresh collection.  chroma_path.removed records that rmtree ran.  *)
(***************************************************************************)
MaxItems == 2

batch_size == 500

\* the entries of the parsed-chunks file
Items ==
    { [chunk_id |-> <<"md5", "_", "d1">>,
       content_with_context |-> <<"Main", " ", "text">>, content |-> <<"text">>,
       metadata |-> [act_name |-> <<"act">>, page_no |-> 1,
                     cross_references |-> <<<<"d1">>, <<"d2">>>>, title |-> None]],
      [chunk_id |-> <<"md5", "_", "d2">>,
       content_with_context |-> <<>>, content |-> <<"text">>,
       metadata |-> [act_name |-> <<"act">>, page_no |-> 2,
                     cross_references |-> <<>>, title |-> <<"b">>]],
      [content_with_context |-> None, content |-> <<>>,
       metadata |-> [act_name |-> <<"purna">>, page_no |-> 1,
                     cross_references |-> <<<<"d1">>>>, title |-> None]] }

ChunkFiles == UNION {[1..k -> Items] : k \in 0..MaxItems}

\* ", ".join(map(str, value)) if value else ""
RECURSIVE JoinList(_)
JoinList(value) ==
    IF value = <<>> THEN <<>>
    ELSE IF Len(value) = 1 THEN value[1]
    ELSE value[1] \o <<",", " ">> \o JoinList(Tail(value))

\* a or b, on text
Or(a, b) == IF Truthy(a) THEN a ELSE b

\* lines 27-45: the Document made from one entry
DocumentOf(item) ==
    [page_content |-> Or(item.content_with_context, Or(item.content, <<"Empty Content">>)),
     metadata |->
         [act_name |-> item.metadata.act_name,
          page_no |-> item.metadata.page_no,
          cross_references |-> JoinList(item.metadata.cross_references),
          title |-> IF item.metadata.title = None THEN <<>> ELSE item.metadata.title,
          chunk_id |-> IF "chunk_id" \in DOMAIN item THEN item.chunk_id
                       ELSE <<"unknown">>]]

\* lines 11-13 with the test on the data file done first
ClearStoreIfData ==
    /\ ingest_pc = "start"
    /\ chroma_path' = IF chroma_path.exists /\ data_path.exists
                      THEN [exists |-> FALSE, removed |-> TRUE, docs |-> <<>>]
                      ELSE chroma_path
    /\ ingest_pc' = "cleared"
    /\ UNCHANGED <<parseVars, first_result, cleanVars, issues, batch, api,
                   data_path, langchain_docs, batch_start>>

\* lines 11-13: an existing store directory is removed with all it holds
ClearStore ==
    /\ ingest_pc = "start"
    /\ chroma_path' = IF chroma_path.exists
                      THEN [exists |-> FALSE, removed |-> TRUE, docs |-> <<>>]
                      ELSE chroma_path
    /\ ingest_pc' = "cleared"
    /\ UNCHANGED <<parseVars, first_result, cleanVars, issues, batch, api,
                   data_path, langchain_docs, batch_start>>

\* lines 15-17: without the data file the run ends here
CheckData ==
    /\ ingest_pc = "cleared"
    /\ ingest_pc' = IF ~data_path.exists THEN "returned" ELSE "load"
    /\ UNCHANGED <<parseVars, first_result, cleanVars, issues, batch, api,
                   chroma_path, data_path, langchain_docs, batch_start>>

\* lines 19-45: json.load raises on a file that is no JSON
LoadData ==
    /\ ingest_pc = "load"
    /\ IF data_path.valid
       THEN /\ langchain_docs' = [n \in 1..Len(data_path.legal_chunks) |->
                                      DocumentOf(data_path.legal_chunks[n])]
            /\ ingest_pc' = "connect"
       ELSE /\ langchain_docs' = langchain_docs
            /\ ingest_pc' = "raised"
    /\ UNCHANGED <<parseVars, first_result, cleanVars, issues, batch, api,
                   chroma_path, data_path, batch_start>>

\* lines 47-52: get_chroma_connection makes the directory, or raises
Connect ==
    /\ ingest_pc = "connect"
    /\ \E fails \in BOOLEAN :
           IF fails
           THEN /\ ingest_pc' = "raised"
                /\ UNCHANGED chroma_path
           ELSE /\ ingest_pc' = "ingest"
                /\ chroma_path' = [chroma_path EXCEPT !.exists = TRUE]
    /\ batch_start' = 0
    /\ UNCHANGED <<parseVars, first_result, cleanVars, issues, batch, api,
                   data_path, langchain_docs>>

\* lines 54-61: one batch; a batch that fails is reported and skipped
AddBatch ==
    /\ ingest_pc = "ingest"
    /\ batch_start < Len(langchain_docs)
    /\ LET last == IF batch_start + batch_size < Len(langchain_docs)
                   THEN batch_start + batch_size ELSE Len(langchain_docs)
           this == SubSeq(langchain_docs, batch_start + 1, last)
       IN  \E fails \in BOOLEAN :
               chroma_path' = IF fails THEN chroma_path
                              ELSE [chroma_path EXCEPT !.docs = @ \o this]
    /\ batch_start' = batch_start + batch_size
    /\ UNCHANGED <<parseVars, first_result, cleanVars, issues, batch, api,
                   data_path, ingest_pc, langchain_docs>>

\* line 63
IngestionComplete ==
    /\ ingest_pc = "ingest"
    /\ batch_start >= Len(langchain_docs)
    /\ ingest_pc' = "complete"
    /\ UNCHANGED <<parseVars, first_result, cleanVars, issues, batch, api,
                   chroma_path, data_path, langchain_docs, batch_start>>

InitIngest ==
    /\ \E e \in BOOLEAN, docs \in Collections :
           chroma_path = [exists |-> e, removed |-> FALSE,
                          docs |-> IF e THEN docs ELSE <<>>]
    /\ \E e \in BOOLEAN, v \in BOOLEAN, f \in ChunkFiles :
           data_path = [exists |-> e, valid |-> e /\ v,
                        legal_chunks |-> IF e /\ v THEN f ELSE <<>>]
    /\ ingest_pc = "start"
    /\ langchain_docs = <<>>
    /\ batch_start = 0
    /\ top_k = DefaultTopK
    /\ response = NoResponse
    /\ Parked

NextIngest ==
    ClearStore \/ CheckData \/ LoadData \/ Connect \/ AddBatch \/ IngestionComplete

SpecIngest == InitIngest /\ [][NextIngest]_vars

(***************************************************************************)
(* parse_act on texts with part and chapter lines on either side of the    *)
(* anchor line, and part and chapter lines that are anchor lines.          *)
(***************************************************************************)
MaxAnchorLines == 3

\* a part line and a chapter line holding the definitions and preamble words
L_PART_DEF == <<"bhag", " ", "d2", " ", "paribhasha">>
L_CHAP_PRE == <<"pariched", " ", "d1", " ", "prastavana">>

AnchorPool == {L_PART, L_CHAP, L_PART_DEF, L_CHAP_PRE, L_SEC_DEF, L_SUB, L_CLAUSE,
               L_CONT, L_PRE}

InitAnchor == InitParse(Texts(AnchorPool, MaxAnchorLines))

SpecAnchor == InitAnchor /\ [][Next]_vars

(***************************************************************************)
(* Properties.                                                             *)
(***************************************************************************)
ChunkIdx == 1..Len(chunks)

IsAtomic(k) == chunks[k].metadata.type \in AtomicTypes

\* C1: in the list returned by parse_act no two chunks have the same chunk_id.
C1_UniqueChunkIds ==
    pc = "done" =>
        \A a \in ChunkIdx, b \in ChunkIdx :
            a # b => chunks[a].chunk_id # chunks[b].chunk_id

\* C2: every sub_section or clause chunk is preceded in the list by a section
\* chunk with the same dapha_no, after any sequence of lines.
C2_SectionPrecedes ==
    \A k \in ChunkIdx :
        chunks[k].metadata.type \in {"sub_section", "clause"} =>
            \E m \in 1..(k - 1) :
                /\ chunks[m].metadata.type = "section"
                /\ chunks[m].metadata.dapha_no = chunks[k].metadata.dapha_no

\* a clause under a subsection of the second section of the file
C2_Witness ==
    /\ pc = "done"
    /\ \E a \in ChunkIdx, b \in ChunkIdx, c \in ChunkIdx, d \in ChunkIdx :
           /\ a < b /\ b < c /\ c < d
           /\ chunks[a].metadata.type = "section"
           /\ chunks[b].metadata.type = "section"
           /\ chunks[c].metadata.type = "sub_section"
           /\ chunks[d].metadata.type = "clause"

\* the atomic chunks that carry the section number of chunk k
C3_Group(k) ==
    {m \in ChunkIdx : IsAtomic(m) /\ chunks[m].metadata.dapha_no = chunks[k].metadata.dapha_no}

C3_Full(k) ==
    {m \in ChunkIdx : /\ chunks[m].metadata.type = "section_comprehensive"
                      /\ chunks[m].metadata.dapha_no = chunks[k].metadata.dapha_no}

\* the contents of the chunks at the indices S, in list order, one per line
RECURSIVE C3_Lines(_)
C3_Lines(S) ==
    LET m == CHOOSE x \in S : \A y \in S : x <= y
    IN IF S = {m} THEN chunks[m].content
       ELSE chunks[m].content \o <<"nl">> \o C3_Lines(S \ {m})

\* C3: a section number with N > 1 atomic chunks has one comprehensive chunk,
\* whose content is the newline-join of the N final contents in parse order;
\* a section number with one atomic chunk has none.
C3_AggregationLaw ==
    pc = "done" =>
        \A k \in ChunkIdx :
            IsAtomic(k) =>
                /\ Cardinality(C3_Group(k)) > 1 =>
                       /\ Cardinality(C3_Full(k)) = 1
                       /\ \A m \in C3_Full(k) : chunks[m].content = C3_Lines(C3_Group(k))
                /\ Cardinality(C3_Group(k)) = 1 => C3_Full(k) = {}

\* a group of two members with different contents beside a group of one
C3_Witness ==
    /\ pc = "done"
    /\ \E a \in ChunkIdx, b \in ChunkIdx, c \in ChunkIdx :
           /\ IsAtomic(a) /\ IsAtomic(b) /\ IsAtomic(c)
           /\ C3_Group(a) = {a, b} /\ a < b
           /\ chunks[a].content # chunks[b].content
           /\ C3_Group(c) = {c}

\* C4: a second parse of the same text returns the same chunks, the order of
\* every cross_references list included.
C4_SameResultTwice ==
    (pc = "done" /\ first_result.done) =>
        /\ chunks = first_result.chunks
        /\ metadata = first_result.metadata

\* the lines the loop reads: the stripped lines of the page bodies
C5_OfferedLines ==
    UNION { {Strip(l) : l \in SeqRange(SplitNL(pages[k]))} :
            k \in {n \in 3..Len(pages) : n % 2 = 1} }

C5_NoSectionLine == \A l \in C5_OfferedLines : ~section_pattern(l).ok

C5_HasIssue(qs, text) == \E k \in 1..Len(qs) : qs[k].text = text

\* C5 as stated: without a section line the result has zero chunks and the
\* issue list contains the CRITICAL 'no sections found' entry.
C5_NoSectionsEntry ==
    (pc = "done" /\ C5_NoSectionLine) =>
        /\ chunks = <<>>
        /\ C5_HasIssue(metadata.validation_issues, "No sections found")

\* C5 amended: without a section line the result has zero chunks and the
\* issue list is exactly the CRITICAL 'no chunks parsed' entry.
C5_NoChunksEntry ==
    (pc = "done" /\ C5_NoSectionLine) =>
        /\ chunks = <<>>
        /\ metadata.validation_issues =
               <<[level |-> "CRITICAL", text |-> "No chunks parsed", args |-> <<>>]>>

\* a file with an anchor and a subsection marker, and no section line
C5_Witness ==
    /\ pc = "done" /\ C5_NoSectionLine
    /\ anchor_found
    /\ \E l \in C5_OfferedLines : sub_section_pattern(l).ok

C6_NoDevanagari == \A k \in 1..Len(raw_text) : raw_text[k] \notin Devanagari

\* C6 as stated: a raw text without Devanagari gives the 'no Devanagari
\* detected' entry for every chunk count, zero included.
C6_EntryAlways ==
    (pc = "validated" /\ C6_NoDevanagari) =>
        C5_HasIssue(issues, "No Devanagari text detected")

\* C6 amended: a raw text without Devanagari gives the CRITICAL 'no Devanagari
\* detected' entry for every chunk count above zero; with zero chunks the list
\* is the 'no chunks parsed' entry alone.
C6_EntryUnlessEmpty ==
    (pc = "validated" /\ C6_NoDevanagari) =>
        IF Len(chunks) > 0
        THEN \E k \in 1..Len(issues) :
                 issues[k] = [level |-> "CRITICAL", text |-> "No Devanagari text detected",
                              args |-> <<>>]
        ELSE issues = <<[level |-> "CRITICAL", text |-> "No chunks parsed", args |-> <<>>]>>

\* a non-empty text without Devanagari, with chunks
C6_Witness ==
    /\ pc = "validated" /\ C6_NoDevanagari
    /\ raw_text # <<>> /\ Len(chunks) > 0

\* C7: for an empty chunk list the result is the single CRITICAL 'no chunks
\* parsed' entry, whatever the statistics and the raw text.
C7_EmptyShortCircuits ==
    (pc = "validated" /\ Len(chunks) = 0) =>
        issues = <<[level |-> "CRITICAL", text |-> "No chunks parsed", args |-> <<>>]>>

\* an empty chunk list with the conditions of the ratio and Devanagari rules true
C7_Witness ==
    /\ pc = "validated" /\ Len(chunks) = 0
    /\ parse_stats.sections > 0 /\ parse_stats.subsections = 0 /\ parse_stats.clauses = 0
    /\ C6_NoDevanagari

\* the fixed order of the rules
C8_Rank(text) ==
    CASE text = "Only chunks parsed" -> 1
      [] text = "No sections found" -> 2
      [] text = "No subsections or clauses found" -> 3
      [] text = "Low sub-structure ratio" -> 4
      [] text = "No Devanagari text detected" -> 5
      [] OTHER -> 0

C8_Level(text) ==
    CASE text \in {"Only chunks parsed", "Low sub-structure ratio"} -> "WARNING"
      [] text \in {"No sections found", "No Devanagari text detected"} -> "CRITICAL"
      [] OTHER -> "INFO"

\* C8: for a non-empty chunk list the result holds exactly the issues whose
\* conditions are true, each once, in the fixed order.
C8_ExactlyTheRules ==
    (pc = "validated" /\ Len(chunks) > 0) =>
        LET n == Len(chunks)
            sec == parse_stats.sections
            sub == parse_stats.subsections + parse_stats.clauses
        IN /\ \A k \in 1..Len(issues) :
                  /\ C8_Rank(issues[k].text) > 0
                  /\ issues[k].level = C8_Level(issues[k].text)
           /\ \A a \in 1..Len(issues), b \in 1..Len(issues) :
                  a < b => C8_Rank(issues[a].text) < C8_Rank(issues[b].text)
           /\ C5_HasIssue(issues, "Only chunks parsed") <=> n < 5
           /\ C5_HasIssue(issues, "No sections found") <=> sec = 0
           /\ C5_HasIssue(issues, "No subsections or clauses found")
                  <=> (sec > 0 /\ parse_stats.subsections = 0 /\ parse_stats.clauses = 0)
           /\ C5_HasIssue(issues, "Low sub-structure ratio") <=> (sec > 0 /\ 10 * sub < 3 * sec)
           /\ C5_HasIssue(issues, "No Devanagari text detected") <=> C6_NoDevanagari

\* five chunks, a low ratio that is not zero, no Devanagari: two issues
C8_Witness ==
    /\ pc = "validated" /\ Len(chunks) = 5
    /\ parse_stats.sections = 4 /\ parse_stats.subsections = 1 /\ parse_stats.clauses = 0
    /\ C6_NoDevanagari
    /\ Len(issues) = 2

\* C9: clean_text(clean_text(x)) = clean_text(x) for every x.
C9_Idempotent == pc = "cleaned twice" => clean_twice = clean_once

\* the three-line text of C10: a section line whose cleaned title holds a
\* definitions marker, a subsection line, a clause line
C10_Text ==
    LET ls == SplitNL(raw_text)
    IN /\ ~Contains(raw_text, <<"PAGE">>)
       /\ Len(ls) = 3
       /\ section_pattern(Strip(ls[1])).ok
       /\ \E k \in 1..Len(definition_markers) :
              Contains(clean_text(section_pattern(Strip(ls[1])).g2), definition_markers[k])
       /\ sub_section_pattern(Strip(ls[2])).ok
       /\ clause_pattern(Strip(ls[3])).ok

\* what C10 says of the first three chunks
C10_FirstThree ==
    LET ls == SplitNL(raw_text)
        s == section_pattern(Strip(ls[1])).g1
        u == sub_section_pattern(Strip(ls[2])).g1
        c == clause_pattern(Strip(ls[3])).g1
        act == metadata.act_identifier
    IN /\ Len(chunks) >= 3
       /\ chunks[1].chunk_id = act \o <<"_">> \o s
       /\ chunks[2].chunk_id = act \o <<"_">> \o s \o <<"_">> \o u
       /\ chunks[3].chunk_id = act \o <<"_">> \o s \o <<"_">> \o u \o <<"_">> \o c
       /\ chunks[1].metadata.type = "section"
       /\ chunks[1].metadata.is_definition = TRUE
       /\ chunks[3].metadata.type = "clause"
       /\ chunks[3].metadata.hierarchy_level = 3
       /\ chunks[3].metadata.citation =
              metadata.act_name \o <<",", " ", "dapha", " ">> \o s
              \o <<"(">> \o u \o <<")", "(">> \o c \o <<")">>

\* C10 as stated: the text produces three chunks.
C10_ThreeChunks ==
    (pc = "done" /\ C10_Text) => (Len(chunks) = 3 /\ C10_FirstThree)

\* C10 amended: the text produces four chunks, the three of the claim followed
\* by the section_comprehensive chunk <act>_<s>_full.
C10_ThreeChunksAndFull ==
    (pc = "done" /\ C10_Text) =>
        /\ Len(chunks) = 4
        /\ C10_FirstThree
        /\ chunks[4].metadata.type = "section_comprehensive"
        /\ chunks[4].chunk_id = chunks[1].chunk_id \o <<"_", "full">>

C10_Witness == pc = "done" /\ C10_Text /\ Len(chunks) = 4

\* the labels, counters, buffers and chunks of the parser: its state apart
\* from the anchor flag
C11_Kept ==
    <<chunks, definitions, cross_references, current_part, current_chapter,
      current_section_no, current_section_title, current_section_full_text,
      current_subsection_no, current_subsection_text, parse_stats>>

\* a non-blank line read before any chunk that matches none of the five patterns
C11_NoMarker ==
    /\ InLoop /\ line # <<>> /\ chunks = <<>>
    /\ ~p_m.ok /\ ~c_m.ok /\ ~s_m.ok /\ ~sub_m.ok /\ ~k_m.ok

\* a non-blank line read before any chunk that no marker branch takes (the
\* subsection and clause branches take nothing while no section is open)
C11_NotTaken ==
    /\ InLoop /\ line # <<>> /\ chunks = <<>>
    /\ ~p_m.ok /\ ~c_m.ok /\ ~s_m.ok

\* C11 as stated: a non-marker line read before any chunk changes no parser
\* state.
C11_ChangesNothing == [][C11_NoMarker => UNCHANGED locals]_vars

\* C11 amended: a line read before any chunk that no marker branch takes is
\* added to no chunk and changes no label, counter or buffer; it sets the anchor
\* flag when it holds a preamble or definitions word, and changes nothing else.
C11_ChangesAnchorOnly ==
    [][C11_NotTaken =>
          /\ UNCHANGED C11_Kept
          /\ anchor_found' = (\/ anchor_found
                              \/ Contains(line, <<"prastavana">>)
                              \/ Contains(line, <<"paribhasha">>))]_vars

\* a preamble line and then a plain line have been read, and nothing is emitted
C11_Witness ==
    /\ pc = "parsing" /\ i = 1 /\ j = 3 /\ Len(lines) >= 3
    /\ Contains(Strip(lines[1]), <<"prastavana">>)
    /\ Strip(lines[2]) = <<"a", " ", " ", "b">>
    /\ anchor_found /\ chunks = <<>> /\ current_section_full_text = <<>>

C12_IsPrefix(a, b) == Len(a) <= Len(b) /\ SubSeq(b, 1, Len(a)) = a

\* C12: while parse_act runs, every step keeps every chunk but the last one as
\* it is; the last one keeps its chunk_id and metadata, its content and
\* content_with_context only grow at the end, and it is kept as it is by a step
\* that emits a chunk.
C12_AppendOnly ==
    [][pc = "parsing" =>
          /\ Len(chunks') >= Len(chunks)
          /\ \A k \in 1..Len(chunks) :
                 /\ chunks'[k].chunk_id = chunks[k].chunk_id
                 /\ chunks'[k].metadata = chunks[k].metadata
                 /\ C12_IsPrefix(chunks[k].content, chunks'[k].content)
                 /\ C12_IsPrefix(chunks[k].content_with_context,
                                 chunks'[k].content_with_context)
                 /\ (k < Len(chunks) \/ Len(chunks') > Len(chunks))
                        => chunks'[k] = chunks[k]]_vars

\* a chunk grown by a continuation line, a later chunk emitted and grown too
C12_Witness ==
    /\ pc = "parsing" /\ Len(chunks) = 2
    /\ Contains(chunks[1].content, <<" ", "a", " ", "b">>)
    /\ Contains(chunks[2].content, <<" ", "a", " ", "b">>)
    /\ chunks[2].metadata.type = "sub_section"

\* the report entries of the files that parsed
C13_Successes == {k \in 1..Len(parsing_report) : parsing_report[k].status = "success"}

C13_Failures == {k \in 1..Len(parsing_report) : parsing_report[k].status = "failed"}

\* C13: the report has one entry per file handled so far, in processing order;
\* the entry of a file whose parse raised has status failed and the message of
\* the exception, and no chunk and no metadata record of that file is
\* collected; the loop position moves on by one after a failure as after a
\* success, and the outputs are written when every file has its entry.
C13_OneEntryPerFile ==
    /\ main_pc \in {"loop", "in parse_act", "written"} =>
           /\ Len(parsing_report) = idx - 1
           /\ \A k \in 1..Len(parsing_report) :
                  /\ parsing_report[k].file = files[k].name \o <<".txt">>
                  /\ parsing_report[k].status \in {"success", "failed"}
           /\ \A k \in C13_Failures :
                  /\ parsing_report[k].error = "OSError"
                  /\ \A c \in 1..Len(all_chunks) :
                         all_chunks[c].metadata.act_identifier
                             # generate_act_id(files[k].name)
                  /\ \A m \in 1..Len(all_metadata) :
                         all_metadata[m].source_filename # parsing_report[k].file
    /\ (main_pc \in {"loop", "written"} /\ idx > 1
            /\ parsing_report[idx - 1].status = "failed") =>
           /\ ~attempts[Len(attempts)].ok
           /\ parsing_report[idx - 1].error = attempts[Len(attempts)].error
    /\ (main_pc \in {"loop", "written"} /\ idx > 1
            /\ parsing_report[idx - 1].status = "success") =>
           attempts[Len(attempts)].ok
    /\ main_pc = "written" => Len(parsing_report) = Len(files)
    /\ main_pc = "loop" => idx \in 1..(Len(files) + 1)
    /\ main_pc = "in parse_act" => (idx \in 1..Len(files) /\ pc \in {"parsing", "done"})

\* three files: the first and the last cannot be read, the second gives chunks
C13_Witness ==
    /\ main_pc = "written" /\ Len(files) = 3
    /\ parsing_report[1].status = "failed"
    /\ parsing_report[2].status = "success" /\ parsing_report[2].chunks > 0
    /\ parsing_report[3].status = "failed"

RECURSIVE C14_ChunkSum(_)
C14_ChunkSum(S) ==
    IF S = {} THEN 0
    ELSE LET k == CHOOSE x \in S : TRUE
         IN parsing_report[k].chunks + C14_ChunkSum(S \ {k})

\* C14: between two files and after the batch, there are as many metadata
\* records as success entries, the flat chunk list is as long as the sum of the
\* chunk counts of the success entries, and every chunk belongs to a file that
\* has a success entry and a metadata record.
C14_CollectionsAgree ==
    main_pc \in {"loop", "written"} =>
        /\ Len(all_metadata) = Cardinality(C13_Successes)
        /\ Len(all_chunks) = C14_ChunkSum(C13_Successes)
        /\ \A c \in 1..Len(all_chunks) :
               \E k \in C13_Successes :
                   /\ all_chunks[c].metadata.act_identifier
                          = generate_act_id(files[k].name)
                   /\ \E m \in 1..Len(all_metadata) :
                          all_metadata[m].source_filename = parsing_report[k].file

\* two files with chunks around a file that cannot be read
C14_Witness ==
    /\ main_pc = "written" /\ Len(files) = 3
    /\ parsing_report[1].status = "success" /\ parsing_report[1].chunks > 1
    /\ parsing_report[2].status = "failed"
    /\ parsing_report[3].status = "success" /\ parsing_report[3].chunks = 1

\* no file opened, no output written, the loop not entered
C15_NothingDone ==
    /\ attempts = <<>>
    /\ output_dir.artifacts = <<>>
    /\ main_pc \notin {"loop", "in parse_act", "written"}

\* C15 as stated: when INPUT_DIR or OUTPUT_DIR did not exist at the start, no
\* file is parsed and no output is written.
C15_StopsWithoutEitherDir ==
    (~input_dir.exists \/ ~output_dir.exists \/ output_dir.created) => C15_NothingDone

\* C15 amended: a missing INPUT_DIR stops the batch before any file is parsed
\* and nothing is written; a missing OUTPUT_DIR is created and the batch goes
\* on, unless creating it raises.
C15_StopsWithoutInputDir ==
    /\ ~input_dir.exists =>
           /\ C15_NothingDone
           /\ main_pc \in {"start", "check input", "raised", "no input directory"}
    /\ main_pc \notin {"start", "raised"} => output_dir.exists
    /\ main_pc = "raised" => (~output_dir.exists /\ C15_NothingDone)

\* both directories were missing: OUTPUT_DIR was made, then the batch stopped
C15_Witness ==
    /\ ~input_dir.exists /\ output_dir.created
    /\ main_pc = "no input directory"

\* C19: the attempts of a read are UTF-8, then UTF-8 with signature only after
\* the UTF-8 decoding failed, then Latin-1 only after both failed; every
\* attempt but the last failed; the text parsed is the decoding of the file by
\* the attempt that succeeded, and the read raised only with no attempt
\* succeeding.
C19_FallbackOrder ==
    attempts # <<>> =>
        LET n == Len(attempts)
        IN /\ n <= 3
           /\ attempts[1].encoding = "utf-8"
           /\ n >= 2 =>
                  /\ attempts[2].encoding = "utf-8-sig"
                  /\ attempts[1].error = "UnicodeDecodeError"
           /\ n >= 3 => attempts[3].encoding = "latin-1"
           /\ \A k \in 1..(n - 1) : ~attempts[k].ok
           /\ main_pc = "in parse_act" =>
                  /\ attempts[n].ok
                  /\ decode(attempts[n].encoding, files[idx].bytes).ok
                  /\ raw_text = decode(attempts[n].encoding, files[idx].bytes).text
           /\ (main_pc \in {"loop", "written"}
                   /\ parsing_report[idx - 1].status = "failed") =>
                  \A k \in 1..n : ~attempts[k].ok

\* a file with a byte that is not UTF-8, read as Latin-1 at the third attempt
C19_Witness ==
    /\ main_pc = "in parse_act" /\ Len(attempts) = 3
    /\ attempts[3].ok
    /\ "latin" \in SeqRange(raw_text)
    /\ chunks # <<>>

\* the field names every metadata record has
C17_Common ==
    {"act_name", "act_identifier", "part", "chapter", "dapha_no", "citation",
     "page_no", "type", "hierarchy_level"}

C17_FieldsOf(type) ==
    C17_Common \cup
    CASE type = "section" -> {"is_definition", "cross_references"}
      [] type = "sub_section" ->
             {"sub_section_no", "parent_section_title", "cross_references"}
      [] type = "clause" ->
             {"sub_section_no", "khanda_label", "parent_section_title",
              "cross_references"}
      [] OTHER -> {"sub_chunk_count"}

\* C17 as stated: all metadata records of a result have the same field names.
C17_SameFields ==
    pc = "done" =>
        \A a \in ChunkIdx, b \in ChunkIdx :
            DOMAIN chunks[a].metadata = DOMAIN chunks[b].metadata

\* C17 amended: the field names of a metadata record are those of its chunk
\* type; a field the type does not have is left out; cross_references is
\* present also when empty, and the sub_section_no of a clause is present also
\* when it is None.
C17_FieldsByType ==
    pc = "done" =>
        \A k \in ChunkIdx :
            /\ chunks[k].metadata.type
                   \in {"section", "sub_section", "clause", "section_comprehensive"}
            /\ DOMAIN chunks[k].metadata = C17_FieldsOf(chunks[k].metadata.type)

\* a result with the four types, a clause outside any subsection, and a chunk
\* without references
C17_Witness ==
    /\ pc = "done"
    /\ {chunks[k].metadata.type : k \in ChunkIdx}
           = {"section", "sub_section", "clause", "section_comprehensive"}
    /\ \E k \in ChunkIdx :
           /\ chunks[k].metadata.type = "clause"
           /\ chunks[k].metadata.sub_section_no = None
    /\ \E k \in ChunkIdx :
           /\ chunks[k].metadata.type = "sub_section"
           /\ chunks[k].metadata.cross_references = <<>>

C18_Count(type) == Cardinality({k \in ChunkIdx : chunks[k].metadata.type = type})

\* the ids of the section chunks flagged as definitions, in list order
C18_DefinitionIds ==
    LET defs == SelectSeq(chunks, LAMBDA c : /\ c.metadata.type = "section"
                                             /\ c.metadata.is_definition)
    IN [k \in 1..Len(defs) |-> defs[k].chunk_id]

\* C18: in the returned metadata the three counters are the numbers of chunks
\* of the three atomic types, definitions is the length of definition_sections,
\* definition_sections holds the ids of the definition sections, and
\* total_chunks is the length of the returned list.
C18_StatisticsAgree ==
    pc = "done" =>
        /\ metadata.parse_statistics.sections = C18_Count("section")
        /\ metadata.parse_statistics.subsections = C18_Count("sub_section")
        /\ metadata.parse_statistics.clauses = C18_Count("clause")
        /\ metadata.parse_statistics.definitions = Len(metadata.definition_sections)
        /\ metadata.definition_sections = C18_DefinitionIds
        /\ metadata.total_chunks = Len(chunks)

\* two sections, one of them a definitions section, a subsection, a clause and
\* a comprehensive chunk
C18_Witness ==
    /\ pc = "done"
    /\ C18_Count("section") = 2 /\ Len(metadata.definition_sections) = 1
    /\ C18_Count("sub_section") = 1 /\ C18_Count("clause") = 1
    /\ C18_Count("section_comprehensive") = 1

\* the text holds no marker of the form --- PAGE <n> ---
C16_NoPageMarker == \A p \in 1..Len(raw_text) : PageMarkerAt(raw_text, p)[2] = 0

\* C16: a text without a well-formed page marker is parsed as the single page
\* 1: the loop reads all its lines, every chunk has page_no 1, and a text with
\* a section line gives chunks.
C16_SinglePageOne ==
    C16_NoPageMarker =>
        /\ pages = << <<>>, <<"1">>, raw_text >>
        /\ \A k \in ChunkIdx : chunks[k].metadata.page_no = 1
        /\ (pc = "done" /\ \E l \in SeqRange(SplitNL(raw_text)) : section_pattern(Strip(l)).ok)
               => chunks # <<>>

\* a line with one of the words the parser leaves SEEKING_ANCHOR on
C20_AnchorLine(l) ==
    \/ Contains(l, <<"prastavana">>)
    \/ Contains(l, <<"paribhasha">>)
    \/ StartsAt(l, 1, <<"d1", ".">>)
    \/ section_pattern(l).ok

\* a line with the preamble word or any of the definitions marker phrases
C20_MarkerLine(l) ==
    \/ C20_AnchorLine(l)
    \/ \E k \in 1..Len(definition_markers) : Contains(l, definition_markers[k])

\* the anchor rule on one step, `anchor` telling whether the line read is an
\* anchor line: a line that is none changes no label, counter, buffer or chunk
\* and leaves the parser seeking; an anchor line ends the seeking and goes
\* through marker recognition, so that a section line emits its section chunk;
\* the anchor, once found, stays found.
C20_Step(anchor) ==
    pc = "parsing" =>
        /\ (InLoop /\ ~anchor_found /\ ~anchor) =>
               (UNCHANGED C11_Kept /\ ~anchor_found')
        /\ (InLoop /\ ~anchor_found /\ anchor) =>
               /\ anchor_found'
               /\ p_m.ok => current_part' # current_part
               /\ (~p_m.ok /\ c_m.ok) => current_chapter' # current_chapter
               /\ (~p_m.ok /\ ~c_m.ok /\ s_m.ok) =>
                      /\ Len(chunks') = 1
                      /\ chunks'[1].metadata.type = "section"
                      /\ chunks'[1].metadata.dapha_no = s_m.g1
                      /\ current_section_no' = s_m.g1
               /\ (~p_m.ok /\ ~c_m.ok /\ ~s_m.ok) => UNCHANGED C11_Kept
        /\ anchor_found => anchor_found'

\* C20 as stated: the anchor lines are the lines that contain a preamble or
\* definitions marker, start with the numeral of section 1 and a dot, or match
\* the section pattern.
C20_AnchorOnAnyMarker == [][C20_Step(C20_MarkerLine(line))]_vars

\* C20 amended: of the definitions marker phrases only the word of the first
\* one makes an anchor line.
C20_AnchorRule == [][C20_Step(C20_AnchorLine(line))]_vars

\* on the second page, the anchor found on the first page by a section line
\* after a line with another definitions marker phrase was discarded
C20_Witness ==
    /\ InLoop /\ i = 3
    /\ anchor_found /\ chunks # <<>>
    /\ LET first == SplitNL(pages[3])
       IN \E k \in 1..(Len(first) - 1) :
              /\ Strip(first[k]) = <<"shabdartha">>
              /\ section_pattern(Strip(first[k + 1])).ok

\* the rule that takes a line, tried in the order of the loop body
C21_Rule ==
    IF part_pattern(line).ok THEN "part"
    ELSE IF chapter_pattern(line).ok THEN "chapter"
    ELSE IF section_pattern(line).ok THEN "section"
    ELSE IF sub_section_pattern(line).ok /\ Truthy(current_section_no) THEN "sub_section"
    ELSE IF clause_pattern(line).ok /\ Truthy(current_section_no) THEN "clause"
    ELSE IF chunks # <<>> THEN "continuation"
    ELSE "discard"

\* one chunk of the given type is added at the end, the others are kept
C21_Emits(type) ==
    /\ Len(chunks') = Len(chunks) + 1
    /\ SubSeq(chunks', 1, Len(chunks)) = chunks
    /\ chunks'[Len(chunks')].metadata.type = type
    /\ UNCHANGED <<current_part, current_chapter>>

\* what a step does to the chunk list and the two labels under each rule
C21_Effect(rule) ==
    CASE rule = "part" ->
             /\ UNCHANGED <<chunks, current_chapter>>
             /\ current_part' = <<"bhag", " ">> \o part_pattern(line).g1 \o <<":", " ">>
                                \o clean_text(part_pattern(line).g2)
      [] rule = "chapter" ->
             /\ UNCHANGED <<chunks, current_part>>
             /\ current_chapter' = <<"pariched", " ">> \o chapter_pattern(line).g1
                                   \o <<":", " ">> \o clean_text(chapter_pattern(line).g2)
      [] rule \in {"section", "sub_section", "clause"} -> C21_Emits(rule)
      [] rule = "continuation" ->
             /\ Len(chunks') = Len(chunks)
             /\ chunks' # chunks
             /\ SubSeq(chunks', 1, Len(chunks) - 1) = SubSeq(chunks, 1, Len(chunks) - 1)
             /\ UNCHANGED <<current_part, current_chapter>>
      [] rule = "discard" -> UNCHANGED <<chunks, current_part, current_chapter>>

\* C21: once the anchor is found, a non-blank line does what the first rule
\* that takes it says, in the order part, chapter, section, subsection, clause,
\* continuation, discard, and nothing any other rule says; it adds at most one
\* chunk.
C21_OneRulePerLine ==
    [][(InLoop /\ line # <<>> /\ anchor_found) =>
          /\ C21_Effect(C21_Rule)
          /\ Len(chunks') <= Len(chunks) + 1]_vars

\* a preamble line, a subsection line dropped while no section is open, and a
\* section line: one chunk from three lines
C21_Witness ==
    /\ pc = "parsing" /\ ~InLoop
    /\ LET ls == SplitNL(raw_text)
       IN /\ Len(ls) = 3
          /\ Contains(ls[1], <<"prastavana">>)
          /\ sub_section_pattern(ls[2]).ok
          /\ section_pattern(ls[3]).ok
    /\ Len(chunks) = 1
    /\ chunks[1].metadata.type = "section"

\* a non-blank line that matches the part pattern or the chapter pattern
C22_LabelLine == InLoop /\ line # <<>> /\ (part_pattern(line).ok \/ chapter_pattern(line).ok)

\* the chunk list, the statistics, the open section and subsection, and the
\* maps and buffers that go with them
C22_Frame ==
    <<chunks, parse_stats, definitions, cross_references,
      current_section_no, current_section_title, current_section_full_text,
      current_subsection_no, current_subsection_text>>

C23_Opener(k) ==
    CHOOSE m \in 1..(k - 1) :
        /\ chunks[m].metadata.type \in {"section", "sub_section"}
        /\ \A n \in (m + 1)..(k - 1) : chunks[n].metadata.type = "clause"

\* the text opens a line with a parenthesised numeral, as a subsection line does
C23_HasSubsectionLine(text) ==
    \E p \in 1..(Len(text) - 2) :
        text[p] = "nl" /\ text[p + 1] = "(" /\ text[p + 2] \in Digits

\* C23: a clause emitted after a section marker and before any subsection
\* marker of that section has no subsection number in its chunk_id, citation,
\* metadata or content_with_context, whatever the section before it had open.
C23_SectionClearsSubsection ==
    pc = "done" =>
        \A k \in ChunkIdx :
            (chunks[k].metadata.type = "clause"
             /\ chunks[C23_Opener(k)].metadata.type = "section") =>
                LET md == chunks[k].metadata
                IN /\ chunks[k].chunk_id =
                          md.act_identifier \o <<"_">> \o md.dapha_no
                          \o <<"_">> \o md.khanda_label
                   /\ md.citation =
                          md.act_name \o <<",", " ", "dapha", " ">> \o md.dapha_no
                          \o <<"(">> \o md.khanda_label \o <<")">>
                   /\ md.sub_section_no = None
                   /\ ~C23_HasSubsectionLine(chunks[k].content_with_context)
                   /\ md.dapha_no = chunks[C23_Opener(k)].metadata.dapha_no

\* a section with a subsection, then a new section with a clause directly
\* under it
C23_Witness ==
    /\ pc = "done"
    /\ Len(chunks) >= 4
    /\ chunks[1].metadata.type = "section"
    /\ chunks[2].metadata.type = "sub_section"
    /\ chunks[3].metadata.type = "section"
    /\ chunks[4].metadata.type = "clause"
    /\ chunks[4].metadata.sub_section_no = None
    /\ chunks[2].metadata.sub_section_no # None

\* a non-blank line that matches the subsection or the clause pattern, read
\* while no section is open
C24_Orphan ==
    /\ InLoop /\ line # <<>>
    /\ sub_section_pattern(line).ok \/ clause_pattern(line).ok
    /\ ~Truthy(current_section_no)

\* chunk list, statistics, open section and subsection, labels, maps, buffer
C24_State ==
    <<chunks, parse_stats, definitions, cross_references, current_part, current_chapter,
      current_section_no, current_section_title, current_section_full_text,
      current_subsection_no, current_subsection_text>>

C25_ContinuationLine ==
    /\ InLoop /\ line # <<>> /\ chunks # <<>>
    /\ ~part_pattern(line).ok /\ ~chapter_pattern(line).ok /\ ~section_pattern(line).ok
    /\ ~sub_section_pattern(line).ok /\ ~clause_pattern(line).ok

C26_OwnContent ==
    [][(InLoop /\ Len(chunks') > Len(chunks)) =>
          LET c == chunks'[Len(chunks')]
          IN CASE c.metadata.type = "clause" ->
                      c.content = Strip(<<"(">> \o clause_pattern(line).g1 \o <<")", " ">>
                                        \o clean_text(clause_pattern(line).g2))
               [] c.metadata.type = "sub_section" ->
                      c.content = Strip(<<"(">> \o sub_section_pattern(line).g1 \o <<")", " ">>
                                        \o clean_text(sub_section_pattern(line).g2))
               [] c.metadata.type = "section" ->
                      c.content = Strip(section_pattern(line).g1 \o <<".", " ">>
                                        \o clean_text(section_pattern(line).g2))]_vars

\* "(<number or label>) <text>", the line of a subsection or a clause
C27_UnitLine(no, text) == <<"(">> \o no \o <<")", " ">> \o text

\* C27: a chunk is created with a content_with_context that opens with the
\* header of its section, "dapha <no>: <title>"; for a subsection its own line
\* follows on the next line; for a clause the line of the open subsection,
\* whenever one is open, and then the clause's own line follow, one per line.
C27_ContextLines ==
    [][(InLoop /\ Len(chunks') > Len(chunks)) =>
          LET c == chunks'[Len(chunks')]
              header == <<"dapha", " ">> \o current_section_no' \o <<":", " ">>
                        \o current_section_title'
              sub_line == C27_UnitLine(current_subsection_no', current_subsection_text')
          IN CASE c.metadata.type = "section" ->
                      c.content_with_context = Strip(header)
               [] c.metadata.type = "sub_section" ->
                      c.content_with_context = Strip(header \o <<"nl">> \o sub_line)
               [] c.metadata.type = "clause" ->
                      c.content_with_context =
                          Strip(header \o <<"nl">>
                                \o (IF Truthy(current_subsection_no)
                                    THEN sub_line \o <<"nl">> ELSE <<>>)
                                \o C27_UnitLine(clause_pattern(line).g1,
                                                clean_text(clause_pattern(line).g2)))]_vars

\* the components that are present, in order
C28_Present(parts) == SelectSeq(parts, LAMBDA x : x # None)

\* C28: a chunk is created with the chunk_id that joins with underscores the
\* act identifier, the section number, the number of the open subsection when
\* one is open and, for a clause, the clause label; and with the citation
\* "<act_name>, dapha <no>" followed by "(<sub_no>)" when a subsection is open
\* and by "(<label>)" for a clause, nothing in between.  A clause directly
\* under a section has the id <act>_<s>_<c> and the citation
\* "<act_name>, dapha <s>(<c>)".
C28_IdAndCitation ==
    [][(InLoop /\ Len(chunks') > Len(chunks)) =>
          LET c == chunks'[Len(chunks')]
              act == get_act_metadata(file_name)
              sub == current_subsection_no'
              label == IF c.metadata.type = "clause" THEN clause_pattern(line).g1 ELSE None
              paren(x) == <<"(">> \o x \o <<")">>
              dapha == act.act_name \o <<",", " ", "dapha", " ">> \o current_section_no'
          IN /\ c.chunk_id =
                    Join(C28_Present(<<act.act_identifier, current_section_no', sub, label>>),
                         <<"_">>)
             /\ c.metadata.citation =
                    dapha \o (IF sub # None THEN paren(sub) ELSE <<>>)
                          \o (IF label # None THEN paren(label) ELSE <<>>)
             /\ (c.metadata.type = "clause" /\ sub = None) =>
                    /\ c.chunk_id = act.act_identifier \o <<"_">> \o current_section_no
                                    \o <<"_">> \o label
                    /\ c.metadata.citation = dapha \o paren(label)]_vars

\* a clause directly under a section, then a subsection and a clause under it
C28_Witness ==
    /\ pc = "parsing" /\ Len(chunks) = 4
    /\ chunks[2].metadata.type = "clause"
    /\ chunks[2].metadata.sub_section_no = None
    /\ chunks[3].metadata.type = "sub_section"
    /\ chunks[4].metadata.type = "clause"
    /\ chunks[4].metadata.sub_section_no = chunks[3].metadata.sub_section_no
    /\ Len(chunks[4].chunk_id) > Len(chunks[2].chunk_id)

\* the first index of a non-empty set of chunk indices
C29_First(S) == CHOOSE x \in S : \A y \in S : x <= y

\* C29: a section number carried by more than one atomic chunk of the file,
\* contiguous or not, has exactly one section_comprehensive chunk; its chunk_id
\* is <act_identifier>_<section_no>_full, its hierarchy_level 0, its
\* sub_chunk_count the number of those atomic chunks, and its part, chapter and
\* page_no are those of the first of them.
C29_OnePerGroup ==
    pc = "done" =>
        \A k \in ChunkIdx :
            (IsAtomic(k) /\ Cardinality(C3_Group(k)) > 1) =>
                /\ Cardinality(C3_Full(k)) = 1
                /\ \A m \in C3_Full(k) :
                       LET first == chunks[C29_First(C3_Group(k))].metadata
                           md == chunks[m].metadata
                       IN /\ chunks[m].chunk_id =
                                 get_act_metadata(file_name).act_identifier
                                 \o <<"_">> \o chunks[k].metadata.dapha_no \o <<"_", "full">>
                          /\ md.hierarchy_level = 0
                          /\ md.sub_chunk_count = Cardinality(C3_Group(k))
                          /\ md.part = first.part
                          /\ md.chapter = first.chapter
                          /\ md.page_no = first.page_no

\* a section on page 1 and a chunk with the same number on page 2, the part
\* label changed in between or not: the comprehensive chunk is on page 1
C29_WitnessPages ==
    /\ pc = "done"
    /\ \E a \in ChunkIdx, b \in ChunkIdx, m \in ChunkIdx :
           /\ IsAtomic(a) /\ C3_Group(a) = {a, b} /\ a < b
           /\ chunks[a].metadata.page_no = 1
           /\ chunks[b].metadata.page_no = 2
           /\ C3_Full(a) = {m}
           /\ chunks[m].metadata.page_no = 1
           /\ chunks[m].metadata.sub_chunk_count = 2

\* a section number that comes back after another section, under a new part
\* label: one group of two, labelled as its first chunk
C29_Witness ==
    /\ pc = "done"
    /\ \E a \in ChunkIdx, b \in ChunkIdx, c \in ChunkIdx, m \in ChunkIdx :
           /\ a < b /\ b < c
           /\ IsAtomic(a) /\ IsAtomic(b) /\ C3_Group(a) = {a, c}
           /\ chunks[b].metadata.dapha_no # chunks[a].metadata.dapha_no
           /\ chunks[c].metadata.chapter # chunks[a].metadata.chapter
           /\ C3_Full(a) = {m}
           /\ chunks[m].metadata.chapter = chunks[a].metadata.chapter

\* the numerals some reference pattern captures somewhere in the text
C30_Captured(text) ==
    UNION {{RefMatch(text, p, ref_patterns[n].word, ref_patterns[n].paren)[1] :
               p \in {q \in 1..Len(text) : StartsAt(text, q, ref_patterns[n].word)}}
           : n \in 1..Len(ref_patterns)} \ {<<>>}

\* C30: a chunk is created with the cross_references list that holds, each
\* once, exactly the numerals the three reference patterns capture in the
\* cleaned text of its own marker line: the section title, the subsection text
\* or the clause text.  A numeral found only in the title or text of the
\* section or subsection above it is not in the list.
C30_OwnReferences ==
    [][(InLoop /\ Len(chunks') > Len(chunks)) =>
          LET c == chunks'[Len(chunks')]
              own == CASE c.metadata.type = "section" -> section_pattern(line).g2
                       [] c.metadata.type = "sub_section" -> sub_section_pattern(line).g2
                       [] c.metadata.type = "clause" -> clause_pattern(line).g2
              refs == c.metadata.cross_references
          IN /\ SeqRange(refs) = C30_Captured(clean_text(own))
             /\ \A a \in 1..Len(refs), b \in 1..Len(refs) : refs[a] = refs[b] => a = b]_vars

\* a section that names section 1 and chapter 2, and under it a subsection
\* that names section 1 and subsection (1): the subsection lists the numeral 1
\* once and does not list 2
C30_Witness ==
    /\ pc = "parsing" /\ Len(chunks) = 2
    /\ chunks[1].metadata.type = "section"
    /\ SeqRange(chunks[1].metadata.cross_references) = {<<"d1">>, <<"d2">>}
    /\ chunks[2].metadata.type = "sub_section"
    /\ chunks[2].metadata.cross_references = << <<"d1">> >>
    /\ Len(FindAll(current_subsection_text, 1, <<"dapha">>, FALSE)) = 1
    /\ Len(FindAll(current_subsection_text, 1, <<"upa", "dapha">>, TRUE)) = 1

\* the place of a digit in code point order: the ASCII digits come before the
\* Devanagari ones
C31_Rank(c) == CASE c = "0" -> 0 [] c = "1" -> 1 [] c = "2" -> 2
                 [] c = "d1" -> 3 [] c = "d2" -> 4

\* a < b as Python compares two strings
RECURSIVE C31_Less(_, _)
C31_Less(a, b) ==
    IF b = <<>> THEN FALSE
    ELSE IF a = <<>> THEN TRUE
    ELSE IF a[1] = b[1] THEN C31_Less(Tail(a), Tail(b))
    ELSE C31_Rank(a[1]) < C31_Rank(b[1])

\* C31: every cross_references list, as extract_cross_references returned it,
\* is in sorted order.
C31_SortedReferences ==
    \A k \in ChunkIdx :
        IsAtomic(k) =>
            LET refs == chunks[k].metadata.cross_references
            IN \A a \in 1..(Len(refs) - 1) : C31_Less(refs[a], refs[a + 1])

\* the atomic chunks of the result whose cross_references list is not empty
C32_Referring == {k \in ChunkIdx : IsAtomic(k) /\ chunks[k].metadata.cross_references # <<>>}

\* C32: the cross_reference_map of the result has exactly the chunk_ids of the
\* chunks with a non-empty cross_references list as its keys, and maps the id
\* of each of these chunks to that chunk's list.
C32_MapAgrees ==
    pc = "done" =>
        /\ DOMAIN metadata.cross_reference_map = {chunks[k].chunk_id : k \in C32_Referring}
        /\ \A k \in C32_Referring :
               metadata.cross_reference_map[chunks[k].chunk_id]
                   = chunks[k].metadata.cross_references

\* the numbers of the page markers of the text, in order
RECURSIVE C33_MarkerNumbers(_, _)
C33_MarkerNumbers(s, p) ==
    IF p > Len(s) THEN <<>>
    ELSE LET m == PageMarkerAt(s, p)
         IN IF m[2] > 0 THEN <<IntOf(m[1])>> \o C33_MarkerNumbers(s, m[2])
            ELSE C33_MarkerNumbers(s, p + 1)

\* C33: a chunk is emitted with the number of the page marker that opens the
\* page its marker line is on (page 1 for a text without page markers), whatever
\* page its section was opened on; and no step changes the page_no of a chunk
\* that exists, a continuation line from a later page included.
C33_PageOfOwnLine ==
    [][InLoop =>
          /\ Len(chunks') > Len(chunks) =>
                 chunks'[Len(chunks')].metadata.page_no =
                     IF Contains(raw_text, <<"PAGE">>)
                     THEN C33_MarkerNumbers(raw_text, 1)[(i + 1) \div 2]
                     ELSE 1
          /\ \A k \in 1..Len(chunks) :
                 chunks'[k].metadata.page_no = chunks[k].metadata.page_no]_vars

\* a section on page 1 and a subsection of it on page 2
C33_Witness ==
    /\ pc = "parsing" /\ Len(chunks) = 2
    /\ chunks[1].metadata.type = "section" /\ chunks[1].metadata.page_no = 1
    /\ chunks[2].metadata.type = "sub_section" /\ chunks[2].metadata.page_no = 2
    /\ chunks[2].metadata.dapha_no = chunks[1].metadata.dapha_no

\* a section on page 1, grown by a line of page 2
C33_WitnessContinuation ==
    /\ pc = "parsing" /\ Len(chunks) = 1
    /\ chunks[1].metadata.page_no = 1
    /\ Contains(chunks[1].content, <<" ", "a", " ", "b">>)
    /\ Len(pages) = 5 /\ ~InLoop
    /\ Contains(pages[5], <<"a", " ", " ", "b">>)

\* the section chunks of the result
C34_Sections == {k \in ChunkIdx : chunks[k].metadata.type = "section"}

\* the atomic chunks whose section number is the string n
C34_SameString(n) == {k \in ChunkIdx : IsAtomic(k) /\ chunks[k].metadata.dapha_no = n}

\* C34: section numbers are compared as strings.  Two section chunks whose
\* numerals differ as strings have different chunk ids and no comprehensive
\* chunk in common; every comprehensive chunk counts exactly the atomic chunks
\* whose numeral is the same string as its own, and a numeral has at most one
\* comprehensive chunk, so markers with the same string are in one group.
C34_LiteralNumbers ==
    pc = "done" =>
        /\ \A a \in C34_Sections, b \in C34_Sections :
               chunks[a].metadata.dapha_no # chunks[b].metadata.dapha_no =>
                   /\ chunks[a].chunk_id # chunks[b].chunk_id
                   /\ C3_Full(a) \cap C3_Full(b) = {}
        /\ \A m \in ChunkIdx :
               chunks[m].metadata.type = "section_comprehensive" =>
                   /\ chunks[m].metadata.sub_chunk_count
                          = Cardinality(C34_SameString(chunks[m].metadata.dapha_no))
                   /\ \A n \in ChunkIdx :
                          (/\ chunks[n].metadata.type = "section_comprehensive"
                           /\ chunks[n].metadata.dapha_no = chunks[m].metadata.dapha_no)
                              => n = m

\* section 1 written in Devanagari, in ASCII and with a leading zero, then in
\* Devanagari again: three ids, and one group of two
C34_Witness ==
    /\ pc = "done" /\ Len(chunks) = 5
    /\ chunks[1].metadata.dapha_no = <<"d1">>
    /\ chunks[2].metadata.dapha_no = <<"1">>
    /\ chunks[3].metadata.dapha_no = <<"0", "1">>
    /\ chunks[4].metadata.dapha_no = <<"d1">>
    /\ chunks[5].metadata.type = "section_comprehensive"
    /\ chunks[5].metadata.dapha_no = <<"d1">>
    /\ chunks[5].metadata.sub_chunk_count = 2

\* the request finds nothing: the retriever returned, and no document is left
\* after the act_name filter
C35_NoDocument(question, act_name, request_top_k) ==
    retrieve_context(retrieve(question, request_top_k), act_name) = <<>>

\* C35: when retrieval returns no document, also after the act_name filter,
\* POST /api/legal/ask answers with status 404 and the detail 'No relevant
\* legal documents found for your question'.
C35_AskNotFound ==
    [][\A question \in Queries, act_name \in ActNames \cup {None}, request_top_k \in TopKs :
           (/\ C35_NoDocument(question, act_name, request_top_k)
            /\ ask_legal_question(question, act_name, request_top_k, FALSE, FALSE, <<"text">>))
               => /\ response'.status = 404
                  /\ response'.detail = NOT_FOUND_ASK]_vars

\* C39: after a GET /api/legal/retrieve request ends, with a result, with 404
\* or with a 500 error, the shared retriever's top_k is what it was before the
\* request.
C39_TopKRestored ==
    [][response'.endpoint = "retrieve" => top_k' = top_k]_vars

\* C40: run_ingestion removes the existing vector store directory before it
\* checks that the parsed-chunks file exists: when the check is made no store
\* directory is left, and when the file is missing the run ends there, with the
\* previous store removed and no document ingested.
C40_StoreRemovedFirst ==
    /\ ingest_pc = "cleared" =>
           /\ ~chroma_path.exists
           /\ chroma_path.docs = <<>>
    /\ ingest_pc = "returned" =>
           /\ ~data_path.exists
           /\ ~chroma_path.exists
           /\ chroma_path.docs = <<>>
           /\ langchain_docs = <<>>

\* the file is missing and there was a store: the run has ended, the store is gone
C40_Witness ==
    /\ ingest_pc = "returned"
    /\ ~data_path.exists
    /\ chroma_path.removed
    /\ ~chroma_path.exists

C36_NoSections == Issue("CRITICAL", "No sections found", <<>>)

\* C36: in every state of a parse the chunk list is non-empty exactly when a
\* section is open, and exactly when the section counter is at least 1; so the
\* first chunk of a non-empty result is a section chunk, and a non-empty result
\* never carries the 'no sections found' issue.
C36_ChunksIffSection ==
    /\ chunks # <<>> <=> Truthy(current_section_no)
    /\ chunks # <<>> <=> parse_stats.sections >= 1
    /\ chunks # <<>> => chunks[1].metadata.type = "section"
    /\ (pc = "done" /\ chunks # <<>>) =>
           \A n \in 1..Len(metadata.validation_issues) :
               metadata.validation_issues[n] # C36_NoSections

\* a subsection line comes after the anchor and before the first section: the
\* result starts with the section
C36_Witness ==
    /\ pc = "done"
    /\ SplitNL(raw_text) = <<L_PRE, L_SUB, L_SEC_DEF>>
    /\ Len(chunks) = 1
    /\ chunks[1].metadata.type = "section"
    /\ parse_stats.sections = 1

\* line n of the text, stripped as the loop strips it
C37_Line(n) == Strip(SplitNL(raw_text)[n])

\* the anchor line: the first non-blank line that passes the anchor test
C37_AnchorAt ==
    LET S == {n \in 1..Len(SplitNL(raw_text)) :
                 C37_Line(n) # <<>> /\ IsAnchor(C37_Line(n))}
    IN  IF S = {} THEN Len(SplitNL(raw_text)) + 1
        ELSE CHOOSE n \in S : \A m \in S : n <= m

C37_IsPart(n) == part_pattern(C37_Line(n)).ok
C37_IsChapter(n) == ~part_pattern(C37_Line(n)).ok /\ chapter_pattern(C37_Line(n)).ok

\* a part (chapter) marker has been read by line n, the anchor line included
C37_PartBy(n) == \E m \in C37_AnchorAt..n : C37_IsPart(m)
C37_ChapterBy(n) == \E m \in C37_AnchorAt..n : C37_IsChapter(m)

C37_New == {n \in 1..Len(chunks') : n > Len(chunks)}

\* C37: a Part or Chapter marker line before the anchor line changes no label
\* and no chunk; until a Part (Chapter) marker has been read at or after the
\* anchor line the running part (chapter) is 'Main' ('General') and every chunk
\* emitted carries it; the labels of a chunk never change afterwards.
C37_DefaultLabels ==
    [][InLoop =>
           /\ (j < C37_AnchorAt /\ (C37_IsPart(j) \/ C37_IsChapter(j))) =>
                  /\ current_part' = current_part
                  /\ current_chapter' = current_chapter
                  /\ chunks' = chunks
           /\ ~C37_PartBy(j) =>
                  /\ current_part' = <<"Main">>
                  /\ \A n \in C37_New : chunks'[n].metadata.part = <<"Main">>
           /\ ~C37_ChapterBy(j) =>
                  /\ current_chapter' = <<"General">>
                  /\ \A n \in C37_New : chunks'[n].metadata.chapter = <<"General">>
           /\ \A n \in 1..Len(chunks) :
                  /\ chunks'[n].metadata.part = chunks[n].metadata.part
                  /\ chunks'[n].metadata.chapter = chunks[n].metadata.chapter]_vars

\* a part line and a chapter line come before the anchor line, a section line:
\* its chunk is under 'Main' and 'General'
C37_Witness ==
    /\ pc = "done"
    /\ SplitNL(raw_text) = <<L_PART, L_CHAP, L_SEC_DEF>>
    /\ Len(chunks) = 1
    /\ chunks[1].metadata.part = <<"Main">>
    /\ chunks[1].metadata.chapter = <<"General">>

\* a part line that is the anchor line is read as a marker
C37_WitnessAnchorPart ==
    /\ pc = "done"
    /\ SplitNL(raw_text) = <<L_PART, L_PART_DEF, L_SEC_DEF>>
    /\ Len(chunks) = 1
    /\ chunks[1].metadata.part # <<"Main">>
    /\ chunks[1].metadata.part # <<"bhag", " ", "d1", ":", " ", "ka">>

\* the text has a page marker: re.split found one
C38_Marked == Contains(raw_text, <<"PAGE">>) /\ Len(pages) >= 3

\* the positions in pages of the texts that follow a page marker
C38_After == {k \in 3..Len(pages) : k % 2 = 1}

\* the stripped lines of the pages that follow a page marker
C38_Lines ==
    UNION {{Strip(SplitNL(pages[k])[m]) : m \in 1..Len(SplitNL(pages[k]))} : k \in C38_After}

\* the lexemes of the pages that follow a page marker
C38_Lexemes == UNION {{pages[k][m] : m \in 1..Len(pages[k])} : k \in C38_After}

C38_Atomic == {n \in 1..Len(chunks) : chunks[n].metadata.type \in AtomicTypes}

\* C38: when the text contains page markers, the text before the first marker is
\* never offered to the state machine: the anchor is found only on a line after
\* a marker, chunks are emitted only for marker lines after a page marker, and
\* the text of a chunk holds only what stands after a page marker.
C38_BeforeFirstMarkerSkipped ==
    C38_Marked =>
        /\ anchor_found => \E l \in C38_Lines : l # <<>> /\ IsAnchor(l)
        /\ chunks # <<>> => \E l \in C38_Lines : section_pattern(l).ok
        /\ parse_stats.sections > 0 => \E l \in C38_Lines : section_pattern(l).ok
        /\ (\E n \in C38_Atomic : chunks[n].metadata.type = "sub_section")
               => \E l \in C38_Lines : sub_section_pattern(l).ok
        /\ (\E n \in C38_Atomic : chunks[n].metadata.type = "clause")
               => \E l \in C38_Lines : clause_pattern(l).ok
        /\ \A n \in C38_Atomic : \A m \in 1..Len(chunks[n].content) :
               chunks[n].content[m] \in C38_Lexemes \cup {" "}
        /\ InLoop => i + 2 \in C38_After /\ lines = SplitNL(pages[i + 2])

\* a section line, a subsection line and a plain line stand before the only page
\* marker: the parse ends without an anchor and without a chunk
C38_Witness ==
    /\ pc = "done"
    /\ SplitNL(raw_text) = <<L_SEC_DEF, L_SUB, L_CONT, L_PAGE>>
    /\ ~anchor_found
    /\ chunks = <<>>

====
